---- MODULE Spec2Model ----
(***************************************************************************)
(* Model of buildhub's to-kinto publisher (jobs/buildhub/to_kinto.py):     *)
(* main() loads the hash cache (fetch_existing), starts one consumer task  *)
(* that batches queued records and hands the batches to a thread pool      *)
(* (publish_records), runs the producer, waits for queue.join() and then   *)
(* cancels the consumer.                                                    *)
(*                                                                         *)
(* Two specifications:                                                      *)
(*   Spec        the whole of main(): producer, queue, consumer, pool,      *)
(*               done-callbacks, join and cancel.                           *)
(*   SpecPublish publish_records() alone, statement by statement, on every  *)
(*               batch of the bounded input set and every batch response.   *)
(***************************************************************************)
EXTENDS Integers, Sequences, FiniteSets, TLC

(***************************************************************************)
(* Bounds of the model.                                                     *)
(***************************************************************************)
\* Number of items the input stream yields at most.
MaxInput == 3
\* Largest BATCH_MAX_REQUESTS the environment configures besides the default.
MaxBatch == 2
\* Longest batch publish_records is applied to in SpecPublish.
MaxPubLen == 3

(***************************************************************************)
(* Program constants.                                                       *)
(***************************************************************************)
NB_THREADS == 3
\* WAIT_TIMEOUT, in seconds
WAIT_TIMEOUT == 5
\* config('BATCH_MAX_REQUESTS', default=9999, cast=int)
DEFAULT_BATCH_MAX_REQUESTS == 9999
\* asyncio.Queue() is built without a maxsize: 0, which asyncio reads as
\* "no limit".
maxsize == 0

(***************************************************************************)
(* Records.  A record's data is a JSON object with the keys id, title,      *)
(* last_modified and schema; NoId, and 0 for the two volatile fields, stand *)
(* for "key absent".                                                        *)
(***************************************************************************)
NoId == "-"

Data(id, title, lm, schema) ==
    [id |-> id, title |-> title, last_modified |-> lm, schema |-> schema]

\* A top-level JSON object without a "data" key.
NoData == [absent |-> TRUE]

\* One input item: the top-level "id" key, the "data" key, the "permission" key.
Item(top, data, perm) == [id |-> top, data |-> data, permission |-> perm]

HasKeyData(item) == item.data # NoData
HasKeyPermission(item) == item.permission
HasKeyId(obj) == obj.id # NoId

\* The producer's completion sentinel ("done = object()").
done == [sentinel |-> TRUE]

(***************************************************************************)
(* hash_record / hash_record_mutate.  The mutating variant pops             *)
(* last_modified and schema from its argument and digests the JSON dump of  *)
(* what is left with sorted keys; md5 is modelled as an injective function  *)
(* of the serialised text, here of the stripped object itself.              *)
(***************************************************************************)
PopLastModifiedOnly(record) == [record EXCEPT !.last_modified = 0]

\* record.pop('last_modified', None); record.pop('schema', None)
Pop(record) == [record EXCEPT !.last_modified = 0, !.schema = 0]

MD5(text) == [md5 |-> text]

\* Result of hash_record_mutate: the digest and the argument as it is left.
hash_record_mutate(record) ==
    [digest |-> MD5(Pop(record)), record |-> Pop(record)]

\* hash_record works on a deep copy: the argument is left as it was.
hash_record(record) == hash_record_mutate(record).digest

(***************************************************************************)
(* fetch_existing.  The cache file is NoFile or a mapping id -> [ts, hash]; *)
(* the remote collection is a set of data objects carrying id and           *)
(* last_modified.                                                           *)
(***************************************************************************)
NoFile == [nofile |-> TRUE]

EmptyMap == [i \in {} |-> 0]

\* The two-element list [last_modified, hash] stored per id.
Entry(ts, hash) == [ts |-> ts, hash |-> hash]

SetMax(S) == CHOOSE m \in S : \A x \in S : x <= m

AllRecords(remote, etag) == remote

\* Records the server returns: all of them, or those modified since the etag.
NewRecords(remote, previous_run_etag) ==
    {r \in remote : r.last_modified > previous_run_etag}

\* The record of `new` with id `id` (ids are unique in a collection).
RemoteById(new, id) == CHOOSE r \in new : r.id = id

MergeOnlyNew(records, new) ==
    [id \in {r.id : r \in new} |->
        Entry(RemoteById(new, id).last_modified,
              hash_record_mutate(RemoteById(new, id)).digest)]

\* records[record['id']] = [record['last_modified'], hash_record_mutate(record)]
Merge(records, new) ==
    [id \in DOMAIN records \cup {r.id : r \in new} |->
        IF \E r \in new : r.id = id
        THEN Entry(RemoteById(new, id).last_modified,
                   hash_record_mutate(RemoteById(new, id)).digest)
        ELSE records[id]]

\* [raised, records, file]: whether fetch_existing raised, the mapping it
\* returns and the cache file it leaves behind.
fetch_existing(file, remote) ==
    IF file # NoFile /\ DOMAIN file = {}
    THEN \* max([]) raises ValueError on an empty persisted mapping
         [raised |-> TRUE, records |-> EmptyMap, file |-> file]
    ELSE LET loaded == IF file = NoFile THEN EmptyMap ELSE file
             etag   == IF file = NoFile THEN 0
                       ELSE SetMax({loaded[i].ts : i \in DOMAIN loaded})
             recs   == Merge(loaded, NewRecords(remote, etag))
         IN [raised  |-> FALSE,
             records |-> recs,
             file    |-> IF DOMAIN recs # {} THEN recs ELSE file]

(***************************************************************************)
(* consume's helpers.                                                       *)
(***************************************************************************)
\* record['id'] in existing and existing.get(record['id']) == hash_record(record)
\* (evaluated on record['data']; the caller makes sure the key 'id' exists).
record_unchanged(existing, record) ==
    /\ record.id \in DOMAIN existing
    /\ existing[record.id] = hash_record(record)

hash_record_argument_mutated(record) == hash_record_mutate(record).record

\* The argument of hash_record after the call: hash_record hands a deep
\* copy to hash_record_mutate.
hash_record_argument(record) == record

\* The queue item after record_unchanged(record['data']): hash_record is
\* called on the data when its id is in existing.
Checked(existing, item) ==
    IF item.data.id \in DOMAIN existing
    THEN [item EXCEPT !.data = hash_record_argument(item.data)]
    ELSE item

Min(a, b) == IF a <= b THEN a ELSE b

ConfiguredOnly(configured, advertised) == configured

\* ideal_batch_size = min(BATCH_MAX_REQUESTS, info['settings']['batch_max_requests'])
IdealBatchSize(configured, advertised) == Min(configured, advertised)

\* asyncio.Queue.full(): maxsize <= 0 means the queue never fills.
Full(q) == maxsize > 0 /\ Len(q) >= maxsize

NoValidation(record) == FALSE

\* 'data' not in record and 'permission' not in record
InvalidRecord(record) == ~HasKeyData(record) /\ ~HasKeyPermission(record)

(***************************************************************************)
(* publish_records.                                                         *)
(***************************************************************************)
AlwaysUpdate(record) == "update"

\* if 'id' in record['data']: batch.update_record(**record)
\* else:                      batch.create_record(**record)
OpKind(record) == IF HasKeyId(record.data) THEN "update" ELSE "create"

Operation(record) == [op |-> OpKind(record), record |-> record]

\* A successful sub-result (no 'code' key) and an error sub-result.
Success(id) == [data |-> id]
Failure(code, id) == [code |-> code, existing |-> id]

HasCode(result) == "code" \in DOMAIN result

ErrorMsgNoGeneric(result) ==
    IF HasCode(result) /\ result.code = 412
    THEN <<[kind |-> "exists", id |-> result.existing]>>
    ELSE IF HasCode(result) /\ result.code = 400
    THEN <<[kind |-> "invalid", result |-> result]>>
    ELSE <<>>

\* The messages one sub-result adds to error_msgs (none or one).
ErrorMsg(result) ==
    IF HasCode(result) /\ result.code = 412
    THEN <<[kind |-> "exists", id |-> result.existing]>>
    ELSE IF HasCode(result) /\ result.code = 400
    THEN <<[kind |-> "invalid", result |-> result]>>
    ELSE IF HasCode(result)
    THEN <<[kind |-> "error", result |-> result]>>
    ELSE <<>>

RECURSIVE ErrorMsgs(_)
\* error_msgs after the loop over all results.
ErrorMsgs(results) ==
    IF results = <<>> THEN <<>>
    ELSE ErrorMsg(Head(results)) \o ErrorMsgs(Tail(results))

\* Status codes a sub-operation can answer with.
ErrorCodes == {400, 412, 500}

\* The sub-results the server can give for one operation.
ResultsOf(operation) ==
    LET id == IF HasKeyId(operation.record.data)
              THEN operation.record.data.id ELSE "new"
    IN {Success(id)} \cup {Failure(c, id) : c \in ErrorCodes}

\* Every response of a batch call: one sub-result per operation, in order.
Responses(ops) ==
    {rs \in [1 .. Len(ops) -> UNION {ResultsOf(ops[i]) : i \in 1 .. Len(ops)}] :
        \A i \in 1 .. Len(ops) : rs[i] \in ResultsOf(ops[i])}

(***************************************************************************)
(* Inputs.                                                                  *)
(***************************************************************************)
\* {"data": {"id": "a", "title": "t1"}}
ItemA == Item(NoId, Data("a", "t1", 0, 0), FALSE)
\* {"id": "a", "data": {"id": "a", "title": "t1", "last_modified": 1, "schema": 1}}
ItemB == Item("a", Data("a", "t1", 1, 1), FALSE)
\* {"data": {"id": "b", "title": "t2"}}
ItemC == Item(NoId, Data("b", "t2", 0, 0), FALSE)
\* {"data": {"title": "t1"}}
ItemD == Item(NoId, Data(NoId, "t1", 0, 0), FALSE)
\* {"permission": {...}}
ItemP == Item(NoId, NoData, TRUE)
\* {}
ItemX == Item(NoId, NoData, FALSE)

Items == {ItemA, ItemB, ItemC, ItemD, ItemP, ItemX}

\* A record of the remote collection.
RemoteA == Data("a", "t1", 1, 1)

\* A mapping id -> hash handed to main() as its `existing` argument.
ExistingA == "a" :> hash_record(RemoteA)

\* (skip_existing, existing argument, cache file, remote collection)
Runs ==
    { <<TRUE, EmptyMap, NoFile, {RemoteA}>>,
      <<TRUE, EmptyMap, EmptyMap, {RemoteA}>>,
      <<FALSE, EmptyMap, NoFile, {RemoteA}>>,
      <<FALSE, ExistingA, NoFile, {RemoteA}>> }

\* (BATCH_MAX_REQUESTS, server-advertised batch_max_requests)
Sizes ==
    { <<MaxBatch, 1>>,
      <<MaxBatch, MaxBatch + 1>>,
      <<DEFAULT_BATCH_MAX_REQUESTS, MaxBatch + 1>> }

\* Records publish_records is applied to in SpecPublish.
PubItems == {ItemA, ItemC, ItemD}

PubBatches == UNION {[1 .. n -> PubItems] : n \in 1 .. MaxPubLen}

(***************************************************************************)
(* State.                                                                   *)
(***************************************************************************)
VARIABLES
    skip_existing,        \* main's skip_existing argument
    existingArg,          \* main's existing argument
    cacheFile,            \* the persisted hash cache
    remote,               \* the remote collection
    BATCH_MAX_REQUESTS,   \* the configured maximum
    batch_max_requests,   \* info['settings']['batch_max_requests']
    existing,             \* the mapping consume looks records up in
    mainPc,               \* "start", "produce", "join", "cancel", "returned", "raised"
    mainError,            \* the exception main ended with
    stdin,                \* the items read from the input so far
    queue,                \* asyncio.Queue: the items held
    unfinished,           \* asyncio.Queue._unfinished_tasks
    putLog,               \* every item put on the queue, in order
    consPc,               \* "new", "scheduled", "filling", "cancelling", "dead",
                          \* "cancelled"
    ideal_batch_size,
    batch,                \* the batch being collected
    skipped,              \* records marked done as unchanged, in order
    batches,              \* every batch handed to the executor, in order
    loopErrors,           \* exceptions the event loop caught in callbacks
    loop,                 \* "stopped" once run_until_complete stopped the loop
    pubPc, pubRecords, pubOps, pubCalls, pubResults, pubSeen, error_msgs,
    pubRaised,
    elapsed,              \* seconds since async_timeout.timeout() was entered
    idle,                 \* seconds since an item was last put or pulled
    lastEnd,              \* how the last Filling phase ended
    diskFile0,            \* the cache file when fetch_existing is called
    diskFile,             \* the cache file
    diskTmp,              \* the file cache_file + '.tmp'
    pages,                \* the server's pages of the collection, in order
    lastHeader,           \* the Next-Page header of the last page
    fetchPc,              \* where fetch_existing is
    fetchError,           \* the exception fetch_existing ended with
    fetchRecords,         \* the local variable records
    previous_run_etag,    \* {} for None, {ts} for '"ts"'
    new_records,          \* the records of the response being merged
    endpoint,             \* the page the next request asks for
    requests,             \* every request sent, in order
    merged,               \* the number of responses merged
    hashInput,            \* a record hash_record is called on
    hashOther,            \* a second record
    digests,              \* what the calls on hashInput returned, in order
    otherDigest,          \* what the call on hashOther returned, if made
    strippedDigest,       \* what the call on the stripped hashInput returned
    retry_on_notfound,    \* fetch_json's argument
    answers,              \* the server's answer to each attempt, in order
    fetchJsonPc,          \* "idle", "trying", "returned", "raised"
    fetchJsonError,       \* the exception fetch_json ended with
    received,             \* what fetch_json returned
    candidates_build_folder, \* product -> (version -> build number)
    release_metadata,     \* (product, version, platform) -> fragment or None
    nightly_metadata,     \* en-US sidecar URL -> fragment or None
    calls,                \* every resolver or scanner call made, in order
    min_last_modified,    \* csv_to_records' threshold, NoMinimum if not set
    skip_incomplete,      \* csv_to_records' argument
    inventory,            \* the inventory entries, in order
    position,             \* how many entries csv_to_records has handled
    emitted,              \* the entries whose record was emitted, in order
    resolved              \* the entries a resolver was called for, in order

mainVars == <<skip_existing, existingArg, cacheFile, remote, BATCH_MAX_REQUESTS,
              batch_max_requests, existing, mainPc, mainError, stdin, queue,
              unfinished, putLog, consPc, ideal_batch_size, batch, skipped,
              batches, loopErrors, loop>>

pubVars == <<pubPc, pubRecords, pubOps, pubCalls, pubResults, pubSeen,
             error_msgs, pubRaised>>

fillVars == <<elapsed, idle, lastEnd>>

fetchVars == <<diskFile0, diskFile, diskTmp, pages, lastHeader, fetchPc,
               fetchError, fetchRecords, previous_run_etag, new_records,
               endpoint, requests, merged>>

hashVars == <<hashInput, hashOther, digests, otherDigest, strippedDigest>>

jsonVars == <<retry_on_notfound, answers, fetchJsonPc, fetchJsonError,
              received>>

cacheVars == <<candidates_build_folder, release_metadata, nightly_metadata,
               calls>>

csvVars == <<min_last_modified, skip_incomplete, inventory, position, emitted,
             resolved>>

invVars == <<jsonVars, cacheVars, csvVars>>

auxVars == <<fillVars, fetchVars, hashVars, invVars>>

vars == <<mainVars, pubVars, auxVars>>

NoEnd == [cause |-> "none", elapsed |-> 0, idle |-> 0, size |-> 0]

FillIdle ==
    /\ elapsed = 0
    /\ idle = 0
    /\ lastEnd = NoEnd

FetchIdle ==
    /\ diskFile0 = NoFile
    /\ diskFile = NoFile
    /\ diskTmp = NoFile
    /\ pages = <<>>
    /\ lastHeader = "missing"
    /\ fetchPc = "idle"
    /\ fetchError = "none"
    /\ fetchRecords = EmptyMap
    /\ previous_run_etag = {}
    /\ new_records = {}
    /\ endpoint = 0
    /\ requests = <<>>
    /\ merged = 0

HashIdle ==
    /\ hashInput = Data(NoId, "t1", 0, 0)
    /\ hashOther = Data(NoId, "t1", 0, 0)
    /\ digests = <<>>
    /\ otherDigest = {}
    /\ strippedDigest = {}

JsonIdle ==
    /\ retry_on_notfound = FALSE
    /\ answers = <<>>
    /\ fetchJsonPc = "idle"
    /\ fetchJsonError = "none"
    /\ received = "none"

CacheIdle ==
    /\ candidates_build_folder = EmptyMap
    /\ release_metadata = EmptyMap
    /\ nightly_metadata = EmptyMap
    /\ calls = <<>>

\* min_last_modified=None.
NoMinimum == 0

CsvIdle ==
    /\ min_last_modified = NoMinimum
    /\ skip_incomplete = TRUE
    /\ inventory = <<>>
    /\ position = 0
    /\ emitted = <<>>
    /\ resolved = <<>>

InvIdle == JsonIdle /\ CacheIdle /\ CsvIdle

AuxIdle == FillIdle /\ FetchIdle /\ HashIdle /\ InvIdle

PubIdle ==
    /\ pubPc = "idle"
    /\ pubRecords = <<>>
    /\ pubOps = <<>>
    /\ pubCalls = 0
    /\ pubResults = <<>>
    /\ pubSeen = 0
    /\ error_msgs = <<>>
    /\ pubRaised = <<>>

MainIdle ==
    /\ skip_existing = FALSE
    /\ existingArg = EmptyMap
    /\ cacheFile = NoFile
    /\ remote = {}
    /\ BATCH_MAX_REQUESTS = DEFAULT_BATCH_MAX_REQUESTS
    /\ batch_max_requests = MaxBatch
    /\ existing = EmptyMap
    /\ mainPc = "idle"
    /\ mainError = "none"
    /\ stdin = <<>>
    /\ queue = <<>>
    /\ unfinished = 0
    /\ putLog = <<>>
    /\ consPc = "new"
    /\ ideal_batch_size = 0
    /\ batch = <<>>
    /\ skipped = <<>>
    /\ batches = <<>>
    /\ loopErrors = 0
    /\ loop = "running"

Init ==
    /\ \E run \in Runs :
        /\ skip_existing = run[1]
        /\ existingArg = run[2]
        /\ cacheFile = run[3]
        /\ remote = run[4]
    /\ \E sizes \in Sizes :
        /\ BATCH_MAX_REQUESTS = sizes[1]
        /\ batch_max_requests = sizes[2]
    /\ existing = EmptyMap
    /\ mainPc = "start"
    /\ mainError = "none"
    /\ stdin = <<>>
    /\ queue = <<>>
    /\ unfinished = 0
    /\ putLog = <<>>
    /\ consPc = "new"
    /\ ideal_batch_size = 0
    /\ batch = <<>>
    /\ skipped = <<>>
    /\ batches = <<>>
    /\ loopErrors = 0
    /\ loop = "running"
    /\ PubIdle
    /\ AuxIdle

\* run_until_complete runs the event loop until main() is done, returned
\* or raised.  The callback that stops it is queued behind the callbacks
\* that are ready then, so the consumer and the done-callbacks that are
\* ready still run; then the loop stops and runs nothing any more.
LoopRunning == loop = "running"

(***************************************************************************)
(* main, lines 285-296: load the hash cache and schedule the consumer.      *)
(***************************************************************************)
MainStartWithoutFetch ==
    /\ mainPc = "start"
    /\ existing' = existingArg
    /\ consPc' = "scheduled"
    /\ mainPc' = "produce"
    /\ UNCHANGED <<skip_existing, existingArg, cacheFile, remote,
                   BATCH_MAX_REQUESTS, batch_max_requests, mainError, stdin,
                   queue, unfinished, putLog, ideal_batch_size, batch,
                   skipped, batches, loopErrors, loop>>
    /\ UNCHANGED <<pubVars, auxVars>>

MainStart ==
    /\ mainPc = "start"
    /\ LET f == fetch_existing(cacheFile, remote)
       IN IF skip_existing /\ f.raised
          THEN /\ mainPc' = "raised"
               /\ mainError' = "fetch_existing"
               /\ UNCHANGED <<existing, cacheFile, consPc>>
          ELSE /\ existing' = IF skip_existing THEN f.records ELSE existingArg
               /\ cacheFile' = IF skip_existing THEN f.file ELSE cacheFile
               /\ consPc' = "scheduled"
               /\ mainPc' = "produce"
               /\ UNCHANGED mainError
    /\ UNCHANGED <<skip_existing, existingArg, remote, BATCH_MAX_REQUESTS,
                   batch_max_requests, stdin, queue, unfinished, putLog,
                   ideal_batch_size, batch, skipped, batches, loopErrors, loop>>
    /\ UNCHANGED <<pubVars, auxVars>>

(***************************************************************************)
(* produce.                                                                 *)
(***************************************************************************)
PutOrJoin(record, limit) ==
    /\ mainPc = "produce"
    /\ Len(stdin) < limit
    /\ ~Full(queue)
    /\ stdin' = Append(stdin, record)
    /\ IF InvalidRecord(record)
       THEN /\ mainPc' = "join"
            /\ mainError' = "produce"
            /\ UNCHANGED <<queue, unfinished, putLog>>
       ELSE /\ queue' = Append(queue, record)
            /\ unfinished' = unfinished + 1
            /\ putLog' = Append(putLog, record)
            /\ UNCHANGED <<mainPc, mainError>>
    /\ UNCHANGED <<skip_existing, existingArg, cacheFile, remote,
                   BATCH_MAX_REQUESTS, batch_max_requests, existing, consPc,
                   ideal_batch_size, batch, skipped, batches, loopErrors, loop>>

\* One iteration of "async for record in records": validate, then put.
Put(record, limit) ==
    /\ mainPc = "produce"
    /\ Len(stdin) < limit
    /\ ~Full(queue)
    /\ stdin' = Append(stdin, record)
    /\ IF InvalidRecord(record)
       THEN /\ mainPc' = "raised"
            /\ mainError' = "produce"
            /\ UNCHANGED <<queue, unfinished, putLog>>
       ELSE /\ queue' = Append(queue, record)
            /\ unfinished' = unfinished + 1
            /\ putLog' = Append(putLog, record)
            /\ UNCHANGED <<mainPc, mainError>>
    /\ UNCHANGED <<skip_existing, existingArg, cacheFile, remote,
                   BATCH_MAX_REQUESTS, batch_max_requests, existing, consPc,
                   ideal_batch_size, batch, skipped, batches, loopErrors, loop>>

PutRecord == \E record \in Items : Put(record, MaxInput)

ProduceRecord == PutRecord /\ UNCHANGED <<pubVars, auxVars>>

\* The input is exhausted: put the sentinel; main goes on to queue.join().
PutDone ==
    /\ mainPc = "produce"
    /\ ~Full(queue)
    /\ queue' = Append(queue, done)
    /\ unfinished' = unfinished + 1
    /\ putLog' = Append(putLog, done)
    /\ mainPc' = "join"
    /\ UNCHANGED <<skip_existing, existingArg, cacheFile, remote,
                   BATCH_MAX_REQUESTS, batch_max_requests, existing, mainError,
                   stdin, consPc, ideal_batch_size, batch, skipped, batches,
                   loopErrors, loop>>

ProduceDone == PutDone /\ UNCHANGED <<pubVars, auxVars>>

(***************************************************************************)
(* consume.                                                                 *)
(***************************************************************************)
DispatchedUnpooled(bs, records) ==
    [records |-> records, call |-> "running", failed |-> FALSE,
     applied |-> 0, marks |-> 0]

DispatchedAwaited(bs, records) ==
    [records |-> records, call |-> "finished", failed |-> FALSE,
     applied |-> 0, marks |-> 0]

\* The calls of publish_records that a worker thread is executing.
Running(bs) == {i \in 1 .. Len(bs) : bs[i].call = "running"}

\* A batch handed to the executor: its records, the state of its
\* publish_records call ("pending" in the pool's work queue, "running" in a
\* worker thread, "finished"), whether the call raised, and the number of
\* queue.task_done() calls its done-callback has made.  run_in_executor
\* only submits the call: it waits in the pool's work queue until a worker
\* thread takes it.
Dispatched(bs, records) ==
    [records |-> records,
     call    |-> "pending",
     failed  |-> FALSE,
     applied |-> 0,
     marks   |-> 0]

DispatchFirst(bs, b) ==
    IF b # <<>> THEN <<Dispatched(bs, b)>> \o bs ELSE bs

\* "if batch: loop.run_in_executor(...); task.add_done_callback(...)"
Dispatch(bs, b) == IF b # <<>> THEN Append(bs, Dispatched(bs, b)) ELSE bs

\* consume up to its first "await queue.get()": negotiate the batch size.
ConsumerBegins ==
    /\ LoopRunning
    /\ consPc = "scheduled"
    /\ ideal_batch_size' = IdealBatchSize(BATCH_MAX_REQUESTS, batch_max_requests)
    /\ batch' = <<>>
    /\ consPc' = "filling"
    /\ UNCHANGED <<skip_existing, existingArg, cacheFile, remote,
                   BATCH_MAX_REQUESTS, batch_max_requests, existing, mainPc,
                   mainError, stdin, queue, unfinished, putLog, skipped,
                   batches, loopErrors, loop>>

ConsumeStart == ConsumerBegins /\ UNCHANGED <<pubVars, auxVars>>

\* The KeyError cases of lines 244-246: record['data'] on an item without
\* 'data', record['id'] on data without 'id' (in record_unchanged), and
\* record['id'] on an item without a top-level 'id' (in the f-string of the
\* skip branch).
RaisesKeyError(record) ==
    \/ ~HasKeyData(record)
    \/ ~HasKeyId(record.data)
    \/ /\ record_unchanged(existing, record.data)
       /\ ~HasKeyId(record)

\* The record is skipped: it is unchanged and the skip branch runs through.
Skips(record) ==
    /\ ~RaisesKeyError(record)
    /\ record_unchanged(existing, record.data)

\* One pass of the inner loop: "record = await queue.get()" and what follows
\* up to the next await, the dispatch of lines 265-269 included when the loop
\* is left.
GetItem ==
    /\ LoopRunning
    /\ consPc = "filling"
    /\ Len(batch) < ideal_batch_size
    /\ queue # <<>>
    /\ LET record == Head(queue)
       IN /\ queue' = Tail(queue)
          /\ IF record = done
             THEN \* queue.task_done(); break
                  /\ unfinished' = unfinished - 1
                  /\ batches' = Dispatch(batches, batch)
                  /\ batch' = <<>>
                  /\ UNCHANGED <<consPc, skipped>>
             ELSE IF RaisesKeyError(record)
             THEN \* the exception ends the consumer task
                  /\ consPc' = "dead"
                  /\ UNCHANGED <<unfinished, batches, batch, skipped>>
             ELSE IF Skips(record)
             THEN \* queue.task_done(); continue
                  /\ unfinished' = unfinished - 1
                  /\ skipped' = Append(skipped, record)
                  /\ UNCHANGED <<consPc, batches, batch>>
             ELSE \* batch.append(record)
                  /\ IF Len(batch) + 1 < ideal_batch_size
                     THEN /\ batch' = Append(batch, Checked(existing, record))
                          /\ UNCHANGED batches
                     ELSE /\ batches' =
                                 Dispatch(batches,
                                          Append(batch,
                                                 Checked(existing, record)))
                          /\ batch' = <<>>
                  /\ UNCHANGED <<consPc, unfinished, skipped>>
    /\ UNCHANGED <<skip_existing, existingArg, cacheFile, remote,
                   BATCH_MAX_REQUESTS, batch_max_requests, existing, mainPc,
                   mainError, stdin, putLog, ideal_batch_size, loopErrors, loop>>

ConsumeGet == GetItem /\ UNCHANGED <<pubVars, auxVars>>

\* async_timeout.timeout(WAIT_TIMEOUT) expires while the consumer waits in
\* queue.get(): the batch collected so far is dispatched.
TimedOut ==
    /\ LoopRunning
    /\ consPc = "filling"
    /\ batches' = Dispatch(batches, batch)
    /\ batch' = <<>>
    /\ UNCHANGED <<skip_existing, existingArg, cacheFile, remote,
                   BATCH_MAX_REQUESTS, batch_max_requests, existing, mainPc,
                   mainError, stdin, queue, unfinished, putLog, consPc,
                   ideal_batch_size, skipped, loopErrors, loop>>

ConsumeTimeout == TimedOut /\ UNCHANGED <<pubVars, auxVars>>

(***************************************************************************)
(* The thread pool and the done-callbacks.                                  *)
(***************************************************************************)
RECURSIVE Operations(_)
\* The operations publish_records adds to the batch, in order.
Operations(records) ==
    IF records = <<>> THEN <<>>
    ELSE <<Operation(Head(records))>> \o Operations(Tail(records))

\* What a batch call comes to: whether publish_records raises, and the
\* number of sub-operations the server applied.
Outcome(results) ==
    [raised  |-> ErrorMsgs(results) # <<>>,
     applied |-> Cardinality({k \in 1 .. Len(results) : ~HasCode(results[k])})]

\* The outcome for every response the server can give.
Outcomes(records) ==
    {Outcome(results) : results \in Responses(Operations(records))}

\* The batch when its publish_records call has ended.
Finished(b, outcome) ==
    [b EXCEPT !.call = "finished", !.failed = outcome.raised,
              !.applied = outcome.applied]

\* The work queue of the pool is first in, first out.
OldestPending(bs, i) ==
    /\ bs[i].call = "pending"
    /\ \A k \in 1 .. i - 1 : bs[k].call # "pending"

\* One of the NB_THREADS worker threads takes the oldest call of the work
\* queue and starts publish_records.
WorkerStart(i) ==
    /\ OldestPending(batches, i)
    /\ Cardinality(Running(batches)) < NB_THREADS
    /\ batches' = [batches EXCEPT ![i].call = "running"]
    /\ UNCHANGED <<skip_existing, existingArg, cacheFile, remote,
                   BATCH_MAX_REQUESTS, batch_max_requests, existing, mainPc,
                   mainError, stdin, queue, unfinished, putLog, consPc,
                   ideal_batch_size, batch, skipped, loopErrors, loop>>
    /\ UNCHANGED <<pubVars, auxVars>>

\* publish_records ends in the worker thread: it returned the results or
\* raised the aggregated failure.
WorkerFinish(i) ==
    /\ batches[i].call = "running"
    /\ \E outcome \in Outcomes(batches[i].records) :
        batches' = [batches EXCEPT ![i] = Finished(batches[i], outcome)]
    /\ UNCHANGED <<skip_existing, existingArg, cacheFile, remote,
                   BATCH_MAX_REQUESTS, batch_max_requests, existing, mainPc,
                   mainError, stdin, queue, unfinished, putLog, consPc,
                   ideal_batch_size, batch, skipped, loopErrors, loop>>
    /\ UNCHANGED <<pubVars, auxVars>>

MarkedThenRetried(b) ==
    IF b.failed
    THEN [b EXCEPT !.marks = Len(b.records), !.call = "pending"]
    ELSE [b EXCEPT !.marks = Len(b.records)]

\* The batch after its done-callback: n calls of queue.task_done(); the
\* exception future.result() raises goes to the event loop, nothing is
\* sent again.
Marked(b) == [b EXCEPT !.marks = Len(b.records)]

CallbackWhileRunning(b) == b.call \in {"running", "finished"}

\* The future's done-callbacks are called once the future is done.
CallbackDue(b) == b.call = "finished"

\* markdone's callback: n times queue.task_done(), then future.result(),
\* which re-raises the call's exception inside the callback; the event loop
\* catches an exception of a callback and hands it to its exception handler.
MarkDone(i) ==
    /\ LoopRunning
    /\ CallbackDue(batches[i])
    /\ batches[i].marks = 0
    /\ unfinished' = unfinished - Len(batches[i].records)
    /\ batches' = [batches EXCEPT ![i] = Marked(batches[i])]
    /\ loopErrors' = IF batches[i].failed THEN loopErrors + 1 ELSE loopErrors
    /\ UNCHANGED <<skip_existing, existingArg, cacheFile, remote,
                   BATCH_MAX_REQUESTS, batch_max_requests, existing, mainPc,
                   mainError, stdin, queue, putLog, consPc, ideal_batch_size,
                   batch, skipped, loop>>
    /\ UNCHANGED <<pubVars, auxVars>>

(***************************************************************************)
(* main, lines 299-302: the join barrier and the cancellation.              *)
(***************************************************************************)
JoinOnEmptyQueue(q, n) == q = <<>>

\* queue.join() returns when every item put was marked done.
JoinReleased(q, n) == n = 0

MainJoin ==
    /\ mainPc = "join"
    /\ JoinReleased(queue, unfinished)
    /\ mainPc' = "cancel"
    /\ UNCHANGED <<skip_existing, existingArg, cacheFile, remote,
                   BATCH_MAX_REQUESTS, batch_max_requests, existing, mainError,
                   stdin, queue, unfinished, putLog, consPc, ideal_batch_size,
                   batch, skipped, batches, loopErrors, loop>>
    /\ UNCHANGED <<pubVars, auxVars>>

\* consumer.cancel(); main returns.  cancel() only requests the
\* cancellation: the CancelledError is thrown into a consumer waiting in
\* queue.get() when the loop runs it next; a task that never ran is
\* cancelled before its first step, a task that ended is left as it is.
MainCancel ==
    /\ mainPc = "cancel"
    /\ consPc' = IF consPc = "filling" THEN "cancelling"
                 ELSE IF consPc = "scheduled" THEN "cancelled"
                 ELSE consPc
    /\ mainPc' = "returned"
    /\ UNCHANGED <<skip_existing, existingArg, cacheFile, remote,
                   BATCH_MAX_REQUESTS, batch_max_requests, existing, mainError,
                   stdin, queue, unfinished, putLog, ideal_batch_size, batch,
                   skipped, batches, loopErrors, loop>>
    /\ UNCHANGED <<pubVars, auxVars>>

\* The CancelledError reaches the consumer in queue.get(): it leaves the
\* timeout context and the outer loop, the task ends cancelled.
ConsumerCancelled ==
    /\ LoopRunning
    /\ consPc = "cancelling"
    /\ consPc' = "cancelled"
    /\ UNCHANGED <<skip_existing, existingArg, cacheFile, remote,
                   BATCH_MAX_REQUESTS, batch_max_requests, existing, mainPc,
                   mainError, stdin, queue, unfinished, putLog,
                   ideal_batch_size, batch, skipped, batches, loopErrors, loop>>
    /\ UNCHANGED <<pubVars, auxVars>>

\* The timer of async_timeout fires before the CancelledError is delivered:
\* the timeout context turns it into asyncio.TimeoutError, which consume
\* catches, so the cancellation is lost; the consumer dispatches what it
\* collected and starts the next Filling phase.
CancelSwallowed ==
    /\ LoopRunning
    /\ consPc = "cancelling"
    /\ consPc' = "filling"
    /\ batches' = Dispatch(batches, batch)
    /\ batch' = <<>>
    /\ UNCHANGED <<skip_existing, existingArg, cacheFile, remote,
                   BATCH_MAX_REQUESTS, batch_max_requests, existing, mainPc,
                   mainError, stdin, queue, unfinished, putLog,
                   ideal_batch_size, skipped, loopErrors, loop>>
    /\ UNCHANGED <<pubVars, auxVars>>

\* run_until_complete stops the loop once main is done, returned or raised:
\* the consumer and the done-callbacks never run again, the worker threads
\* go on.  A cancellation main requested is delivered, or lost to the
\* timer, in the loop's last iteration, before the stop.
LoopStop ==
    /\ mainPc \in {"raised", "returned"}
    /\ consPc # "cancelling"
    /\ loop = "running"
    /\ loop' = "stopped"
    /\ UNCHANGED <<skip_existing, existingArg, cacheFile, remote,
                   BATCH_MAX_REQUESTS, batch_max_requests, existing, mainPc,
                   mainError, stdin, queue, unfinished, putLog, consPc,
                   ideal_batch_size, batch, skipped, batches, loopErrors>>
    /\ UNCHANGED <<pubVars, auxVars>>

\* The exit status of the process: run() returns after main returned, an
\* exception of main ends the process with a traceback.
Exit ==
    IF mainPc = "returned" THEN "zero"
    ELSE IF mainPc = "raised" THEN "nonzero"
    ELSE "running"

Next ==
    \/ MainStart
    \/ ProduceRecord
    \/ ProduceDone
    \/ ConsumeStart
    \/ ConsumeGet
    \/ ConsumeTimeout
    \/ \E i \in 1 .. Len(batches) : WorkerStart(i)
    \/ \E i \in 1 .. Len(batches) : WorkerFinish(i)
    \/ \E i \in 1 .. Len(batches) : MarkDone(i)
    \/ MainJoin
    \/ MainCancel
    \/ ConsumerCancelled
    \/ CancelSwallowed
    \/ LoopStop

Spec == Init /\ [][Next]_vars

(***************************************************************************)
(* publish_records, statement by statement.                                 *)
(***************************************************************************)
InitPublish ==
    /\ MainIdle
    /\ pubPc = "batching"
    /\ pubRecords \in PubBatches
    /\ pubOps = <<>>
    /\ pubCalls = 0
    /\ pubResults = <<>>
    /\ pubSeen = 0
    /\ error_msgs = <<>>
    /\ pubRaised = <<>>
    /\ AuxIdle

\* One iteration of "for record in records" inside "with client.batch()".
PubAddOperation ==
    /\ pubPc = "batching"
    /\ Len(pubOps) < Len(pubRecords)
    /\ pubOps' = Append(pubOps, Operation(pubRecords[Len(pubOps) + 1]))
    /\ UNCHANGED <<pubPc, pubRecords, pubCalls, pubResults, pubSeen,
                   error_msgs, pubRaised>>
    /\ UNCHANGED <<mainVars, auxVars>>

\* Leaving the with-block sends the collected operations as one batch call;
\* "results = batch.results()" holds one sub-result per operation.
PubSend ==
    /\ pubPc = "batching"
    /\ Len(pubOps) = Len(pubRecords)
    /\ pubCalls' = pubCalls + 1
    /\ pubResults' \in Responses(pubOps)
    /\ pubPc' = "inspecting"
    /\ UNCHANGED <<pubRecords, pubOps, pubSeen, error_msgs, pubRaised>>
    /\ UNCHANGED <<mainVars, auxVars>>

\* One iteration of "for result in results".
PubInspect ==
    /\ pubPc = "inspecting"
    /\ pubSeen < Len(pubResults)
    /\ error_msgs' = error_msgs \o ErrorMsg(pubResults[pubSeen + 1])
    /\ pubSeen' = pubSeen + 1
    /\ UNCHANGED <<pubPc, pubRecords, pubOps, pubCalls, pubResults, pubRaised>>
    /\ UNCHANGED <<mainVars, auxVars>>

\* "if error_msgs: raise ValueError('\n'.join(error_msgs))"
PubRaise ==
    /\ pubPc = "inspecting"
    /\ pubSeen = Len(pubResults)
    /\ error_msgs # <<>>
    /\ pubRaised' = Append(pubRaised, error_msgs)
    /\ pubPc' = "raised"
    /\ UNCHANGED <<pubRecords, pubOps, pubCalls, pubResults, pubSeen, error_msgs>>
    /\ UNCHANGED <<mainVars, auxVars>>

\* "return results"
PubReturn ==
    /\ pubPc = "inspecting"
    /\ pubSeen = Len(pubResults)
    /\ error_msgs = <<>>
    /\ pubPc' = "returned"
    /\ UNCHANGED <<pubRecords, pubOps, pubCalls, pubResults, pubSeen,
                   error_msgs, pubRaised>>
    /\ UNCHANGED <<mainVars, auxVars>>

NextPublish ==
    \/ PubAddOperation
    \/ PubSend
    \/ PubInspect
    \/ PubRaise
    \/ PubReturn

SpecPublish == InitPublish /\ [][NextPublish]_vars

(***************************************************************************)
(* consume against the clock: "with async_timeout.timeout(WAIT_TIMEOUT)"    *)
(* is entered once for each Filling phase and encloses the whole inner      *)
(* loop.  Time advances in steps of one second.  main is taken after its    *)
(* first lines, called with skip_existing=False and a mapping of hashes.    *)
(***************************************************************************)
\* The deadline set when the timeout context was entered has passed.
TimerExpired(t) == t = WAIT_TIMEOUT

InitFill ==
    /\ skip_existing = FALSE
    /\ existingArg = ExistingA
    /\ cacheFile = NoFile
    /\ remote = {RemoteA}
    /\ BATCH_MAX_REQUESTS = MaxBatch
    /\ batch_max_requests = MaxBatch + 1
    /\ existing = ExistingA
    /\ mainPc = "produce"
    /\ mainError = "none"
    /\ stdin = <<>>
    /\ queue = <<>>
    /\ unfinished = 0
    /\ putLog = <<>>
    /\ consPc = "scheduled"
    /\ ideal_batch_size = 0
    /\ batch = <<>>
    /\ skipped = <<>>
    /\ batches = <<>>
    /\ loopErrors = 0
    /\ loop = "running"
    /\ PubIdle
    /\ FillIdle
    /\ FetchIdle
    /\ HashIdle
    /\ InvIdle

\* The phase that ends in this step, as the timeout context saw it.
Ended(cause, size) ==
    [cause |-> cause, elapsed |-> elapsed, idle |-> idle, size |-> size]

\* A second passes while the consumer is in a Filling phase; the loop runs
\* the timer's callback before more time passes.  The iteration the loop
\* still runs after main raised takes no time, and a stopped loop has no
\* timer.
FillTick ==
    /\ LoopRunning
    /\ mainPc # "raised"
    /\ consPc = "filling"
    /\ ~TimerExpired(elapsed)
    /\ elapsed' = elapsed + 1
    /\ idle' = IF idle < WAIT_TIMEOUT THEN idle + 1 ELSE idle
    /\ UNCHANGED <<mainVars, pubVars, fetchVars, hashVars, invVars, lastEnd>>

\* An item arrives when produce puts it; an invalid item is not put.
FillProduceRecord ==
    /\ PutRecord
    /\ idle' = IF putLog' # putLog THEN 0 ELSE idle
    /\ UNCHANGED <<pubVars, fetchVars, hashVars, invVars, elapsed, lastEnd>>

\* The sentinel arrives as an item does.
FillProduceDone ==
    /\ PutDone
    /\ idle' = 0
    /\ UNCHANGED <<pubVars, fetchVars, hashVars, invVars, elapsed, lastEnd>>

\* The consumer enters its first Filling phase.
FillConsumeStart ==
    /\ ConsumerBegins
    /\ elapsed' = 0
    /\ idle' = 0
    /\ UNCHANGED <<pubVars, fetchVars, hashVars, invVars, lastEnd>>

\* queue.get() returns an item.  The phase ends when the item is the
\* sentinel, when it completes the batch, or when handling it raises.
FillConsumeGet ==
    /\ GetItem
    /\ LET record == Head(queue)
           cause == IF consPc' = "dead" THEN "error"
                    ELSE IF record = done THEN "sentinel"
                    ELSE IF batches' # batches THEN "size"
                    ELSE "none"
           size == IF cause = "size" THEN Len(batch) + 1 ELSE Len(batch)
       IN IF cause = "none"
          THEN /\ idle' = 0
               /\ UNCHANGED <<elapsed, lastEnd>>
          ELSE /\ lastEnd' = Ended(cause, size)
               /\ elapsed' = 0
               /\ idle' = 0
    /\ UNCHANGED <<pubVars, fetchVars, hashVars, invVars>>

\* The timer cancels the pending queue.get(): asyncio.TimeoutError.
FillConsumeTimeout ==
    /\ TimerExpired(elapsed)
    /\ TimedOut
    /\ lastEnd' = Ended("timeout", Len(batch))
    /\ elapsed' = 0
    /\ idle' = 0
    /\ UNCHANGED <<pubVars, fetchVars, hashVars, invVars>>

NextFill ==
    \/ FillTick
    \/ FillProduceRecord
    \/ FillProduceDone
    \/ FillConsumeStart
    \/ FillConsumeGet
    \/ FillConsumeTimeout
    \/ LoopStop

SpecFill == InitFill /\ [][NextFill]_vars

(***************************************************************************)
(* fetch_existing, step by step: the file system holds the cache file and   *)
(* its '.tmp' sibling, the server holds the collection in pages, a request  *)
(* can fail and the process can die while json.dump writes.                 *)
(***************************************************************************)
MaxPages == 2

MaxStamp == 2

FetchIds == {"a", "b", "c"}

RemoteRecords ==
    {Data(id, "t1", ts, 1) : id \in FetchIds, ts \in 1 .. MaxStamp}

\* A collection holds one record for an id.
Collections ==
    {c \in SUBSET RemoteRecords : \A r1, r2 \in c : r1.id = r2.id => r1 = r2}

\* The cache files an earlier call left behind, and the mapping without
\* entries.
CacheFiles == {Merge(EmptyMap, c) : c \in Collections}

\* The ways the server cuts a collection into at most MaxPages pages; the
\* empty collection is served as one page without records.
Pagings(c) ==
    {f \in [c -> 1 .. MaxPages] :
        \A k \in 1 .. MaxPages :
            (\E r \in c : f[r] = k) => \A j \in 1 .. k : \E r \in c : f[r] = j}

PagesOf(c, f) ==
    LET n == IF c = {} THEN 1 ELSE SetMax({f[r] : r \in c})
    IN [k \in 1 .. n |-> {r \in c : f[r] = k}]

\* Every record of the collection.
Collection == UNION {pages[k] : k \in 1 .. Len(pages)}

\* headers of the response for page k: 'Next-Page' is a link while pages
\* follow; on the last page the header is missing or empty.
NextPage(k) == IF k < Len(pages) THEN "link" ELSE lastHeader

NextPageEndsIfMissing(header) == header = "missing"

\* endpoint = headers['Next-Page'] raises KeyError, or "not endpoint" holds.
NextPageEnds(header) == header = "missing" \/ header = "empty"

DumpedInPlace(file, tmp, entries) == [file |-> entries, tmp |-> tmp]

\* json.dump writes into the file opened as tmpfilename.
Dumped(file, tmp, entries) == [file |-> file, tmp |-> entries]

InitFetch ==
    /\ MainIdle
    /\ PubIdle
    /\ FillIdle
    /\ HashIdle
    /\ InvIdle
    /\ diskFile0 \in {NoFile} \cup CacheFiles
    /\ diskFile = diskFile0
    /\ diskTmp = NoFile
    /\ \E c \in Collections : \E f \in Pagings(c) : pages = PagesOf(c, f)
    /\ lastHeader \in {"missing", "empty"}
    /\ fetchPc = "load"
    /\ fetchError = "none"
    /\ fetchRecords = EmptyMap
    /\ previous_run_etag = {}
    /\ new_records = {}
    /\ endpoint = 1
    /\ requests = <<>>
    /\ merged = 0

\* Lines 94-103: read the cache file when it exists.
FetchLoad ==
    /\ fetchPc = "load"
    /\ IF diskFile = NoFile
       THEN /\ fetchPc' = "request"
            /\ UNCHANGED <<fetchRecords, previous_run_etag, fetchError>>
       ELSE /\ fetchRecords' = diskFile
            /\ IF DOMAIN diskFile = {}
               THEN \* max([]) raises ValueError
                    /\ fetchPc' = "raised"
                    /\ fetchError' = "ValueError"
                    /\ UNCHANGED previous_run_etag
               ELSE /\ previous_run_etag' =
                           {SetMax({diskFile[id].ts : id \in DOMAIN diskFile})}
                    /\ fetchPc' = "request"
                    /\ UNCHANGED fetchError
    /\ UNCHANGED <<diskFile0, diskFile, diskTmp, pages, lastHeader,
                   new_records, endpoint, requests, merged>>
    /\ UNCHANGED <<mainVars, pubVars, fillVars, hashVars, invVars>>

\* Lines 109-116: client.get_records(_since=previous_run_etag, ...).
FetchSince ==
    /\ fetchPc = "request"
    /\ previous_run_etag # {}
    /\ requests' = Append(requests, [page |-> 0, since |-> previous_run_etag])
    /\ \/ /\ fetchPc' = "raised"
          /\ fetchError' = "request"
          /\ UNCHANGED new_records
       \/ /\ \E etag \in previous_run_etag :
                 new_records' = NewRecords(Collection, etag)
          /\ fetchPc' = "merge"
          /\ UNCHANGED fetchError
    /\ UNCHANGED <<diskFile0, diskFile, diskTmp, pages, lastHeader,
                   fetchRecords, previous_run_etag, endpoint, merged>>
    /\ UNCHANGED <<mainVars, pubVars, fillVars, hashVars, invVars>>

\* Lines 123-128 of new_records_iterator: request the page at endpoint.
FetchPage ==
    /\ fetchPc = "request"
    /\ previous_run_etag = {}
    /\ requests' = Append(requests, [page |-> endpoint, since |-> {}])
    /\ \/ /\ fetchPc' = "raised"
          /\ fetchError' = "request"
          /\ UNCHANGED new_records
       \/ /\ endpoint <= Len(pages)
          /\ new_records' = pages[endpoint]
          /\ fetchPc' = "merge"
          /\ UNCHANGED fetchError
    /\ UNCHANGED <<diskFile0, diskFile, diskTmp, pages, lastHeader,
                   fetchRecords, previous_run_etag, endpoint, merged>>
    /\ UNCHANGED <<mainVars, pubVars, fillVars, hashVars, invVars>>

\* Lines 139-145, then lines 129-135 when the iterator is resumed: merge
\* the response into records and look at its Next-Page header.
FetchMerge ==
    /\ fetchPc = "merge"
    /\ fetchRecords' = Merge(fetchRecords, new_records)
    /\ merged' = merged + 1
    /\ new_records' = {}
    /\ IF previous_run_etag = {} /\ ~NextPageEnds(NextPage(endpoint))
       THEN /\ endpoint' = endpoint + 1
            /\ fetchPc' = "request"
       ELSE /\ fetchPc' = "write"
            /\ UNCHANGED endpoint
    /\ UNCHANGED <<diskFile0, diskFile, diskTmp, pages, lastHeader,
                   fetchError, previous_run_etag, requests>>
    /\ UNCHANGED <<mainVars, pubVars, fillVars, hashVars, invVars>>

\* Lines 149-151: "if records:" open the temporary file for writing.
FetchOpenTmp ==
    /\ fetchPc = "write"
    /\ IF DOMAIN fetchRecords = {}
       THEN /\ fetchPc' = "returned"
            /\ UNCHANGED <<diskFile, diskTmp>>
       ELSE /\ LET d == Dumped(diskFile, diskTmp, EmptyMap)
               IN /\ diskFile' = d.file
                  /\ diskTmp' = d.tmp
            /\ fetchPc' = "dump"
    /\ UNCHANGED <<diskFile0, pages, lastHeader, fetchError, fetchRecords,
                   previous_run_etag, new_records, endpoint, requests, merged>>
    /\ UNCHANGED <<mainVars, pubVars, fillVars, hashVars, invVars>>

\* The entries json.dump has written so far, and one more.
WithEntry(written, id) ==
    [i \in DOMAIN written \cup {id} |-> fetchRecords[i]]

\* Line 152: json.dump writes one more entry.
FetchDump ==
    /\ fetchPc = "dump"
    /\ DOMAIN diskTmp # DOMAIN fetchRecords
    /\ LET id == CHOOSE i \in DOMAIN fetchRecords : i \notin DOMAIN diskTmp
           d == Dumped(diskFile, diskTmp, WithEntry(diskTmp, id))
       IN /\ diskFile' = d.file
          /\ diskTmp' = d.tmp
    /\ UNCHANGED <<diskFile0, pages, lastHeader, fetchPc, fetchError,
                   fetchRecords, previous_run_etag, new_records, endpoint,
                   requests, merged>>
    /\ UNCHANGED <<mainVars, pubVars, fillVars, hashVars, invVars>>

\* The process dies while the temporary file is open.
FetchCrash ==
    /\ fetchPc = "dump"
    /\ fetchPc' = "crashed"
    /\ UNCHANGED <<diskFile0, diskFile, diskTmp, pages, lastHeader, fetchError,
                   fetchRecords, previous_run_etag, new_records, endpoint,
                   requests, merged>>
    /\ UNCHANGED <<mainVars, pubVars, fillVars, hashVars, invVars>>

\* Lines 153-156: os.rename(tmpfilename, cache_file); return records.
FetchRename ==
    /\ fetchPc = "dump"
    /\ DOMAIN diskTmp = DOMAIN fetchRecords
    /\ diskFile' = diskTmp
    /\ diskTmp' = NoFile
    /\ fetchPc' = "returned"
    /\ UNCHANGED <<diskFile0, pages, lastHeader, fetchError, fetchRecords,
                   previous_run_etag, new_records, endpoint, requests, merged>>
    /\ UNCHANGED <<mainVars, pubVars, fillVars, hashVars, invVars>>

NextFetch ==
    \/ FetchLoad
    \/ FetchSince
    \/ FetchPage
    \/ FetchMerge
    \/ FetchOpenTmp
    \/ FetchDump
    \/ FetchCrash
    \/ FetchRename

SpecFetch == InitFetch /\ [][NextFetch]_vars

(***************************************************************************)
(* hash_record, called on records of every shape: with and without id,      *)
(* last_modified and schema.                                                *)
(***************************************************************************)
MaxCalls == 2

HashRecords ==
    {Data(id, title, lm, schema) :
        id \in {"a", NoId}, title \in {"t1", "t2"},
        lm \in 0 .. MaxStamp, schema \in 0 .. MaxStamp}

\* The record without its last_modified and schema keys.
StripVolatile(record) == Data(record.id, record.title, 0, 0)

InitHash ==
    /\ MainIdle
    /\ PubIdle
    /\ FillIdle
    /\ FetchIdle
    /\ InvIdle
    /\ hashInput \in HashRecords
    /\ hashOther \in HashRecords
    /\ digests = <<>>
    /\ otherDigest = {}
    /\ strippedDigest = {}

\* hash_record(hashInput), once more.
HashCall ==
    /\ Len(digests) < MaxCalls
    /\ digests' = Append(digests, hash_record(hashInput))
    /\ UNCHANGED <<hashInput, hashOther, otherDigest, strippedDigest>>
    /\ UNCHANGED <<mainVars, pubVars, fillVars, fetchVars, invVars>>

\* hash_record(hashOther)
HashCallOther ==
    /\ otherDigest = {}
    /\ otherDigest' = {hash_record(hashOther)}
    /\ UNCHANGED <<hashInput, hashOther, digests, strippedDigest>>
    /\ UNCHANGED <<mainVars, pubVars, fillVars, fetchVars, invVars>>

\* hash_record of hashInput without its volatile keys.
HashCallStripped ==
    /\ strippedDigest = {}
    /\ strippedDigest' = {hash_record(StripVolatile(hashInput))}
    /\ UNCHANGED <<hashInput, hashOther, digests, otherDigest>>
    /\ UNCHANGED <<mainVars, pubVars, fillVars, fetchVars, invVars>>

NextHash ==
    \/ HashCall
    \/ HashCallOther
    \/ HashCallStripped

SpecHash == InitHash /\ [][NextHash]_vars

(***************************************************************************)
(* The worker pool under load: main after its first lines, called with      *)
(* skip_existing=False, reading up to MaxPoolInput records that are all     *)
(* sent, so that more batches are dispatched than the pool has threads.     *)
(***************************************************************************)
MaxPoolInput == 4

InitPool ==
    /\ skip_existing = FALSE
    /\ existingArg = EmptyMap
    /\ cacheFile = NoFile
    /\ remote = {}
    /\ BATCH_MAX_REQUESTS \in {1, MaxBatch}
    /\ batch_max_requests = MaxBatch
    /\ existing = EmptyMap
    /\ mainPc = "produce"
    /\ mainError = "none"
    /\ stdin = <<>>
    /\ queue = <<>>
    /\ unfinished = 0
    /\ putLog = <<>>
    /\ consPc = "scheduled"
    /\ ideal_batch_size = 0
    /\ batch = <<>>
    /\ skipped = <<>>
    /\ batches = <<>>
    /\ loopErrors = 0
    /\ loop = "running"
    /\ PubIdle
    /\ AuxIdle

PoolProduceRecord == Put(ItemC, MaxPoolInput) /\ UNCHANGED <<pubVars, auxVars>>

NextPool ==
    \/ PoolProduceRecord
    \/ ProduceDone
    \/ ConsumeStart
    \/ ConsumeGet
    \/ ConsumeTimeout
    \/ \E i \in 1 .. Len(batches) : WorkerStart(i)
    \/ \E i \in 1 .. Len(batches) : WorkerFinish(i)
    \/ \E i \in 1 .. Len(batches) : MarkDone(i)
    \/ MainJoin
    \/ MainCancel
    \/ ConsumerCancelled
    \/ CancelSwallowed
    \/ LoopStop

SpecPool == InitPool /\ [][NextPool]_vars

(***************************************************************************)
(* fetch_json: one GET per attempt; the server's answer is a parsed JSON    *)
(* body, a 404, another error status, a connection error, a timeout, or a   *)
(* body of an unexpected content type.                                      *)
(***************************************************************************)
RetryBudget == 3

MaxAttempts == RetryBudget + 1

Answers == {"ok", "notfound", "status", "connection", "timeout", "malformed"}

RetriedWhateverTheFlag(answer, retry) ==
    answer \in {"status", "connection", "notfound"}

\* The failures fetch_json retries: an error status, a connection error,
\* and a 404 when retry_on_notfound is set.
Retried(answer, retry) ==
    \/ answer \in {"status", "connection"}
    \/ answer = "notfound" /\ retry

BudgetLeftOneMore(n) == n <= MaxAttempts

\* After n failed attempts another attempt is made.
BudgetLeft(n) == n < MaxAttempts

\* The failure that ends fetch_json at once.
TerminalError(answer) ==
    IF answer = "notfound" THEN "JSONFileNotFound"
    ELSE IF answer = "timeout" THEN "TimeoutError"
    ELSE "ValueError"

InitFetchJson ==
    /\ MainIdle
    /\ PubIdle
    /\ FillIdle
    /\ FetchIdle
    /\ HashIdle
    /\ CacheIdle
    /\ CsvIdle
    /\ retry_on_notfound \in BOOLEAN
    /\ answers = <<>>
    /\ fetchJsonPc = "trying"
    /\ fetchJsonError = "none"
    /\ received = "none"

\* One attempt: the request, the answer, and what fetch_json makes of it.
FetchJsonAttempt ==
    /\ fetchJsonPc = "trying"
    /\ \E answer \in Answers :
        /\ answers' = Append(answers, answer)
        /\ IF answer = "ok"
           THEN /\ fetchJsonPc' = "returned"
                /\ received' = "body"
                /\ UNCHANGED fetchJsonError
           ELSE IF Retried(answer, retry_on_notfound)
           THEN IF BudgetLeft(Len(answers) + 1)
                THEN UNCHANGED <<fetchJsonPc, fetchJsonError, received>>
                ELSE /\ fetchJsonPc' = "raised"
                     /\ fetchJsonError' = "ClientError"
                     /\ UNCHANGED received
           ELSE /\ fetchJsonPc' = "raised"
                /\ fetchJsonError' = TerminalError(answer)
                /\ UNCHANGED received
    /\ UNCHANGED retry_on_notfound
    /\ UNCHANGED <<mainVars, pubVars, fillVars, fetchVars, hashVars, cacheVars,
                   csvVars>>

NextFetchJson == FetchJsonAttempt

SpecFetchJson == InitFetchJson /\ [][NextFetchJson]_vars

(***************************************************************************)
(* The candidate folder scanner and the channel resolvers, with the caches *)
(* they share during one run.  A call is one step: the requests it sends,  *)
(* the answers of the archive, and what it stores and returns.             *)
(***************************************************************************)
MaxResolverCalls == 3

Products == {"firefox", "thunderbird"}

Versions == {"54.0"}

Platforms == {"win64"}

Locales == {"en-US", "it"}

NightlyBuilds == {"2017-10-29"}

Builds == 1 .. 2

Fragments == {"f1", "f2"}

None == "None"

NoUrl == [build |-> "-", locale |-> "-"]

\* What the archive lists under a product's candidates root: for each
\* version folder its build folders.
Listings ==
    {[versions |-> l] :
        l \in UNION {[vs -> (SUBSET Builds) \ {{}}] : vs \in SUBSET Versions}}

\* The build folder kept for a version: the highest buildN/.
Highest(builds) == CHOOSE b \in builds : \A c \in builds : c <= b

Store(cache, key, value) ==
    [k \in DOMAIN cache \cup {key} |-> IF k = key THEN value ELSE cache[k]]

ScanNeededIfEmpty(folders, product) ==
    \/ product \notin DOMAIN folders
    \/ DOMAIN folders[product] = {}

\* scan_candidates does nothing when the product has an entry.
ScanNeeded(folders, product) == product \notin DOMAIN folders

\* scan_candidates: one listing of the candidates root and one per version
\* folder.
scan_candidates(folders, product, listing) ==
    IF ScanNeeded(folders, product)
    THEN [folders |-> Store(folders, product,
                            [v \in DOMAIN listing.versions |->
                                Highest(listing.versions[v])]),
          listings |-> 1 + Cardinality(DOMAIN listing.versions)]
    ELSE [folders |-> folders, listings |-> 0]

\* What the archive answers for a known version's candidate folder: the
\* folder of a partial update, a folder without a matching sidecar, a
\* sidecar of an unexpected content, or a sidecar with a fragment.
ReleaseAnswers == {"update", "missing", "malformed"} \cup Fragments

NotRemembered(cache, key) == cache

\* The key of a folder without a matching sidecar is stored with None
\* before the error is raised.
AfterMissing(cache, key) == Store(cache, key, None)

fetch_release_metadata(folders, cache, key, listing, answer) ==
    LET s == scan_candidates(folders, key[1], listing)
        out(c, n, result, error) ==
            [folders |-> s.folders, cache |-> c, listings |-> s.listings,
             requests |-> s.listings + n, result |-> result, error |-> error]
    IN  IF key[2] \notin DOMAIN s.folders[key[1]]
        THEN out(cache, 0, None, "none")
        ELSE IF key \in DOMAIN cache
        THEN out(cache, 0, cache[key], "none")
        ELSE IF answer = "update"
        THEN out(Store(cache, key, None), 2, None, "none")
        ELSE IF answer = "missing"
        THEN out(AfterMissing(cache, key), 1, "-", "missing sidecar")
        ELSE IF answer = "malformed"
        THEN out(cache, 2, "-", "malformed sidecar")
        ELSE out(Store(cache, key, answer), 2, answer, "none")

\* What the archive holds for a nightly: a .json sidecar, only a legacy
\* .txt sidecar, no sidecar, or it fails.
NightlyAnswers ==
    {[form |-> f, fragment |-> x] : f \in {"json", "txt"}, x \in Fragments}
    \cup {[form |-> f, fragment |-> None] : f \in {"absent", "error"}}

SidecarUrlOfDownload(entry) == entry

\* The sidecar URL of a nightly is the one of its en-US build.
SidecarUrl(entry) == [entry EXCEPT !.locale = "en-US"]

fetch_nightly_metadata(cache, entry, answer) ==
    LET url == SidecarUrl(entry)
        out(c, n, result, error) ==
            [cache |-> c, requests |-> n, result |-> result, error |-> error]
    IN  IF url \in DOMAIN cache
        THEN out(cache, 0, cache[url], "none")
        ELSE IF answer.form = "json"
        THEN out(Store(cache, url, answer.fragment), 1, answer.fragment,
                 "none")
        ELSE IF answer.form = "txt"
        THEN out(Store(cache, url, answer.fragment), 2, answer.fragment,
                 "none")
        ELSE IF answer.form = "absent"
        THEN out(Store(cache, url, None), 2, None, "none")
        ELSE out(cache, 1, "-", "ClientError")

InitResolve ==
    /\ MainIdle
    /\ PubIdle
    /\ FillIdle
    /\ FetchIdle
    /\ HashIdle
    /\ JsonIdle
    /\ CsvIdle
    /\ candidates_build_folder = EmptyMap
    /\ release_metadata = EmptyMap
    /\ nightly_metadata = EmptyMap
    /\ calls = <<>>

ScanCandidates ==
    /\ Len(calls) < MaxResolverCalls
    /\ \E product \in Products, listing \in Listings :
        LET s == scan_candidates(candidates_build_folder, product, listing)
        IN  /\ candidates_build_folder' = s.folders
            /\ calls' = Append(calls,
                    [fn |-> "scan_candidates", product |-> product,
                     version |-> "-", platform |-> "-", url |-> NoUrl,
                     hadEntry |-> product \in DOMAIN candidates_build_folder,
                     listings |-> s.listings, requests |-> s.listings,
                     result |-> None, error |-> "none"])
    /\ UNCHANGED <<release_metadata, nightly_metadata>>
    /\ UNCHANGED <<mainVars, pubVars, fillVars, fetchVars, hashVars, jsonVars,
                   csvVars>>

FetchReleaseMetadata ==
    /\ Len(calls) < MaxResolverCalls
    /\ \E product \in Products, version \in Versions, platform \in Platforms,
          listing \in Listings, answer \in ReleaseAnswers :
        LET r == fetch_release_metadata(candidates_build_folder,
                     release_metadata, <<product, version, platform>>,
                     listing, answer)
        IN  /\ candidates_build_folder' = r.folders
            /\ release_metadata' = r.cache
            /\ calls' = Append(calls,
                    [fn |-> "fetch_release_metadata", product |-> product,
                     version |-> version, platform |-> platform,
                     url |-> NoUrl,
                     hadEntry |-> product \in DOMAIN candidates_build_folder,
                     listings |-> r.listings, requests |-> r.requests,
                     result |-> r.result, error |-> r.error])
    /\ UNCHANGED nightly_metadata
    /\ UNCHANGED <<mainVars, pubVars, fillVars, fetchVars, hashVars, jsonVars,
                   csvVars>>

FetchNightlyMetadata ==
    /\ Len(calls) < MaxResolverCalls
    /\ \E build \in NightlyBuilds, locale \in Locales,
          answer \in NightlyAnswers :
        LET entry == [build |-> build, locale |-> locale]
            r == fetch_nightly_metadata(nightly_metadata, entry, answer)
        IN  /\ nightly_metadata' = r.cache
            /\ calls' = Append(calls,
                    [fn |-> "fetch_nightly_metadata", product |-> "-",
                     version |-> "-", platform |-> "-", url |-> entry,
                     hadEntry |-> FALSE,
                     listings |-> 0, requests |-> r.requests,
                     result |-> r.result, error |-> r.error])
    /\ UNCHANGED <<candidates_build_folder, release_metadata>>
    /\ UNCHANGED <<mainVars, pubVars, fillVars, fetchVars, hashVars, jsonVars,
                   csvVars>>

NextResolve ==
    \/ ScanCandidates
    \/ FetchReleaseMetadata
    \/ FetchNightlyMetadata

SpecResolve == InitResolve /\ [][NextResolve]_vars

(***************************************************************************)
(* csv_to_records: the inventory entries are handled one after the other;  *)
(* an entry is dropped by the timestamp filter, fails, is dropped as        *)
(* incomplete, or has its record emitted.                                   *)
(***************************************************************************)
MaxEntries == 3

Stamps == 1 .. 3

Threshold == 2

\* What handling an entry comes to once the timestamp filter let it pass:
\* its line or path does not parse, its resolver raises, its resolver
\* returns None, or its resolver returns a fragment.
EntryOutcomes == {"parse error", "resolver error", "None", "fragment"}

Entries == [stamp : Stamps, outcome : EntryOutcomes]

Inventories == UNION {[1 .. n -> Entries] : n \in 0 .. MaxEntries}

OlderOrEqual(stamp, minimum) == minimum # NoMinimum /\ stamp <= minimum

\* The timestamp filter: strictly older than the minimum, if one is set.
Older(stamp, minimum) == minimum # NoMinimum /\ stamp < minimum

\* A record without the resolver's fragment is incomplete.
Incomplete(entry) == entry.outcome = "None"

\* One entry: the timestamp filter, the parsing, the resolver, the
\* completeness filter.
record_of(entry, minimum, skip) ==
    IF Older(entry.stamp, minimum)
    THEN [resolved |-> FALSE, failed |-> FALSE, emitted |-> FALSE]
    ELSE IF entry.outcome = "parse error"
    THEN [resolved |-> FALSE, failed |-> TRUE, emitted |-> FALSE]
    ELSE IF entry.outcome = "resolver error"
    THEN [resolved |-> TRUE, failed |-> TRUE, emitted |-> FALSE]
    ELSE [resolved |-> TRUE, failed |-> FALSE,
          emitted |-> ~(skip /\ Incomplete(entry))]

EndsOnFailure(k, failed, n) == IF failed THEN n ELSE k

\* After entry k of n the sequence goes on with the entry that follows,
\* whether or not entry k failed.
Continues(k, failed, n) == k

InitCsv ==
    /\ MainIdle
    /\ PubIdle
    /\ FillIdle
    /\ FetchIdle
    /\ HashIdle
    /\ JsonIdle
    /\ CacheIdle
    /\ min_last_modified \in {NoMinimum, Threshold}
    /\ skip_incomplete \in BOOLEAN
    /\ inventory \in Inventories
    /\ position = 0
    /\ emitted = <<>>
    /\ resolved = <<>>

CsvEntry ==
    /\ position < Len(inventory)
    /\ LET k == position + 1
           r == record_of(inventory[k], min_last_modified, skip_incomplete)
       IN  /\ position' = Continues(k, r.failed, Len(inventory))
           /\ emitted' = IF r.emitted THEN Append(emitted, k) ELSE emitted
           /\ resolved' = IF r.resolved THEN Append(resolved, k) ELSE resolved
    /\ UNCHANGED <<min_last_modified, skip_incomplete, inventory>>
    /\ UNCHANGED <<mainVars, pubVars, fillVars, fetchVars, hashVars, jsonVars,
                   cacheVars>>

NextCsv == CsvEntry

SpecCsv == InitCsv /\ [][NextCsv]_vars

(***************************************************************************)
(* main under the scheduling of the event loop and the thread pool: a task  *)
(* that can run does run, a call handed to a worker ends, a done-callback   *)
(* that is due is called, the timer of async_timeout expires, the input,    *)
(* being finite, ends, and the loop stops once main is done.                *)
(***************************************************************************)
MaxLiveInput == 2

LiveProduceRecord ==
    /\ \E record \in Items : Put(record, MaxLiveInput)
    /\ UNCHANGED <<pubVars, auxVars>>

NextLive ==
    \/ MainStart
    \/ LiveProduceRecord
    \/ ProduceDone
    \/ ConsumeStart
    \/ ConsumeGet
    \/ ConsumeTimeout
    \/ \E i \in 1 .. Len(batches) : WorkerStart(i)
    \/ \E i \in 1 .. Len(batches) : WorkerFinish(i)
    \/ \E i \in 1 .. Len(batches) : MarkDone(i)
    \/ MainJoin
    \/ MainCancel
    \/ ConsumerCancelled
    \/ CancelSwallowed
    \/ LoopStop

Fairness ==
    /\ WF_vars(MainStart)
    /\ WF_vars(ProduceDone)
    /\ WF_vars(ConsumeStart)
    /\ WF_vars(ConsumeGet)
    /\ WF_vars(ConsumeTimeout)
    /\ \A i \in 1 .. MaxLiveInput :
        WF_vars(i \in DOMAIN batches /\ WorkerStart(i))
    /\ \A i \in 1 .. MaxLiveInput :
        WF_vars(i \in DOMAIN batches /\ WorkerFinish(i))
    /\ \A i \in 1 .. MaxLiveInput :
        WF_vars(i \in DOMAIN batches /\ MarkDone(i))
    /\ WF_vars(MainJoin)
    /\ WF_vars(MainCancel)
    /\ WF_vars(ConsumerCancelled \/ CancelSwallowed)
    /\ WF_vars(LoopStop)

SpecLive == Init /\ [][NextLive]_vars /\ Fairness

(***************************************************************************)
(* Claims.                                                                  *)
(***************************************************************************)
\* Every record the consumer has added to a batch, dispatched or not.
Batched ==
    {batch[k] : k \in 1 .. Len(batch)} \cup
    UNION {{batches[i].records[k] : k \in 1 .. Len(batches[i].records)} :
           i \in 1 .. Len(batches)}

\* The hash cache holds an entry [remoteLastModified, contentHash] for the
\* record's id whose contentHash is the record's digest.
CachedUnchanged(record) ==
    /\ HasKeyData(record)
    /\ HasKeyId(record.data)
    /\ record.data.id \in DOMAIN existing
    /\ "hash" \in DOMAIN existing[record.data.id]
    /\ existing[record.data.id].hash = hash_record(record.data)

\* C1: with skip_existing enabled, a queued record whose id is in the hash
\* cache returned by fetch_existing with a contentHash equal to the record's
\* hash_record digest is never added to a batch, so no batch call carries it.
C1_UnchangedNeverBatched ==
    skip_existing => \A record \in Batched : ~CachedUnchanged(record)

\* C2: the process exits zero only if no batch call raised an aggregated
\* failure: a failed batch makes main end in failure.
C2_BatchFailureIsFatal ==
    Exit = "zero" => \A i \in 1 .. Len(batches) : ~batches[i].failed

\* The consumer pulls the head of the queue.
Pulls == LoopRunning /\ consPc = "filling" /\ queue # <<>> /\ queue' = Tail(queue)

\* record_unchanged reports the queued record unchanged.
ReportedUnchanged(record) ==
    /\ record # done
    /\ HasKeyData(record)
    /\ HasKeyId(record.data)
    /\ record_unchanged(existing, record.data)

\* C3: pulling a record that is reported unchanged marks exactly that one
\* queue item done, adds nothing to the batch and leaves the consumer in
\* Filling.
C3_SkipKeepsConsuming ==
    [][(Pulls /\ ReportedUnchanged(Head(queue))) =>
          /\ unfinished' = unfinished - 1
          /\ batch' = batch
          /\ batches' = batches
          /\ consPc' = "filling"]_vars

RECURSIVE Unmarked(_)
\* Number of dispatched records whose done-callback has not run.
Unmarked(bs) ==
    IF bs = <<>> THEN 0
    ELSE (IF Head(bs).marks = 0 THEN Len(Head(bs).records) ELSE 0)
         + Unmarked(Tail(bs))

\* C4: a dispatched batch's records are marked done once each, all by its
\* done-callback and only after its publish_records call has finished,
\* failed or not; while the call is pending or running none is marked.  The
\* queue's count of unfinished items is then exactly the items still queued,
\* collected, in flight or held by a consumer that raised.
C4_MarkedOnceAfterCall ==
    /\ \A i \in 1 .. Len(batches) :
        /\ batches[i].marks \in {0, Len(batches[i].records)}
        /\ batches[i].marks > 0 => batches[i].call = "finished"
    /\ unfinished = Len(queue) + Len(batch) + Unmarked(batches)
                    + (IF consPc = "dead" THEN 1 ELSE 0)

\* A failed batch is marked done while a later batch is still in flight.
C4_Witness ==
    \E i, j \in 1 .. Len(batches) :
        /\ batches[i].failed
        /\ batches[i].marks = Len(batches[i].records)
        /\ batches[j].call = "running"
        /\ batches[j].marks = 0

\* Nothing is queued, collected or in flight.
Drained ==
    /\ queue = <<>>
    /\ batch = <<>>
    /\ unfinished = 0
    /\ \A i \in 1 .. Len(batches) :
        /\ batches[i].call = "finished"
        /\ batches[i].marks = Len(batches[i].records)

\* The step in which the cancellation of the consumer is requested.
CancelCalled ==
    /\ consPc \notin {"cancelling", "cancelled"}
    /\ consPc' \in {"cancelling", "cancelled"}

\* C5: main cancels the consumer only after queue.join() returned; when it
\* does, and from then on, every dispatched batch has completed and been
\* marked done, the consumer holds no partly collected batch and the queue
\* is empty; the cancellation itself changes none of these.
C5_CancelAfterDrain ==
    /\ [](mainPc \in {"cancel", "returned"} => Drained)
    /\ [][CancelCalled =>
               /\ mainPc = "cancel"
               /\ mainPc' = "returned"
               /\ Drained
               /\ UNCHANGED <<queue, batch, unfinished, batches>>]_vars

\* main has cancelled a consumer that dispatched two batches.
C5_Witness ==
    /\ mainPc = "returned"
    /\ consPc = "cancelling"
    /\ Len(batches) >= 2

\* C6: every batch handed to the worker pool holds at least 1 and at most
\* min(BATCH_MAX_REQUESTS, server-advertised batch_max_requests) records.
C6_BatchSize ==
    \A i \in 1 .. Len(batches) :
        /\ Len(batches[i].records) >= 1
        /\ Len(batches[i].records) <= BATCH_MAX_REQUESTS
        /\ Len(batches[i].records) <= batch_max_requests

\* A batch of the full negotiated size (above 1) and a smaller one.
C6_Witness ==
    \E i, j \in 1 .. Len(batches) :
        /\ Len(batches[i].records) = Min(BATCH_MAX_REQUESTS, batch_max_requests)
        /\ Len(batches[i].records) > 1
        /\ Len(batches[j].records) < Len(batches[i].records)

\* A capacity the input exceeds: a queue of this capacity fills up when the
\* consumer does not pull.
QueueCapacity == MaxInput - 1

\* C7: the queue never holds more items than a fixed capacity, and produce
\* cannot put while the queue holds that many.
C7_QueueBounded ==
    /\ Len(queue) <= QueueCapacity
    /\ Len(queue) = QueueCapacity => ~ENABLED (PutRecord \/ PutDone)

\* An item with neither a 'data' nor a 'permission' key.
NeitherKey(record) ==
    /\ record # done
    /\ record.data = NoData
    /\ ~record.permission

\* C8: an item with neither 'data' nor 'permission' is never put on the
\* queue; when produce reads one, main ends with that failure, and the
\* queue has received exactly the items read before it: neither that item,
\* nor a later one, nor the sentinel.
C8_InvalidItemAborts ==
    /\ \A k \in 1 .. Len(putLog) : ~NeitherKey(putLog[k])
    /\ (\E k \in 1 .. Len(stdin) : NeitherKey(stdin[k])) <=> mainError = "produce"
    /\ mainError = "produce" =>
        /\ mainPc = "raised"
        /\ Exit = "nonzero"
        /\ NeitherKey(stdin[Len(stdin)])
        /\ putLog = SubSeq(stdin, 1, Len(stdin) - 1)

\* produce aborted on an invalid item after it had queued two records.
C8_Witness ==
    /\ mainError = "produce"
    /\ Len(putLog) = 2
    /\ Len(batches) >= 1

\* The failing sub-results of the batch call, in order.
FailingResults == SelectSeq(pubResults, HasCode)

\* The message a failing sub-result is reported with.
Describes(msg, result) ==
    IF result.code = 412
    THEN msg = [kind |-> "exists", id |-> result.existing]
    ELSE IF result.code = 400
    THEN msg = [kind |-> "invalid", result |-> result]
    ELSE msg = [kind |-> "error", result |-> result]

\* C9: publish_records raises exactly one failure if and only if at least
\* one sub-result carries an error status; the failure holds one message
\* for every failing sub-result, in order (412 naming the existing record's
\* id, 400 as an invalid record, any other status generically) and none for
\* a successful one; otherwise it returns the results.
C9_AggregatedFailure ==
    pubPc \in {"raised", "returned"} =>
        /\ pubPc = "raised" <=> FailingResults # <<>>
        /\ pubPc = "returned" => pubRaised = <<>>
        /\ pubPc = "raised" =>
            /\ Len(pubRaised) = 1
            /\ Len(pubRaised[1]) = Len(FailingResults)
            /\ \A k \in 1 .. Len(FailingResults) :
                Describes(pubRaised[1][k], FailingResults[k])

\* A batch call answering one 412 and one success was reported as one
\* failure with one message.
C9_Witness ==
    /\ pubPc = "raised"
    /\ Len(pubResults) = 2
    /\ ~HasCode(pubResults[1])
    /\ HasCode(pubResults[2])
    /\ pubResults[2].code = 412
    /\ Len(pubRaised[1]) = 1

\* C10: publish_records issues, for the records in batch order, an update
\* for a record whose data carries an id and a create otherwise, one
\* operation per record, all of them in a single batch call.
C10_OneOperationPerRecord ==
    /\ Len(pubOps) <= Len(pubRecords)
    /\ \A k \in 1 .. Len(pubOps) :
        /\ pubOps[k].record = pubRecords[k]
        /\ pubOps[k].op = (IF pubRecords[k].data.id = NoId THEN "create" ELSE "update")
    /\ pubCalls = (IF pubPc = "batching" THEN 0 ELSE 1)
    /\ pubPc # "batching" => Len(pubOps) = Len(pubRecords)

\* A batch call of a create followed by an update was sent.
C10_Witness ==
    /\ pubPc = "returned"
    /\ Len(pubOps) >= 2
    /\ pubOps[1].op = "create"
    /\ pubOps[2].op = "update"

(***************************************************************************)
(* Ordering.                                                                *)
(***************************************************************************)
RECURSIVE Concat(_)
\* The records of the batches, concatenated in dispatch order.
Concat(bs) ==
    IF bs = <<>> THEN <<>> ELSE Head(bs).records \o Concat(Tail(bs))

IsRecord(item) == item # done

\* The items the consumer has pulled and handled; the item whose handling
\* raised, the last one pulled by a consumer that is dead, is not among them.
Handled ==
    LET pulled == SubSeq(putLog, 1, Len(putLog) - Len(queue))
    IN IF consPc = "dead" THEN SubSeq(pulled, 1, Len(pulled) - 1) ELSE pulled

IsSkipped(item) == IsRecord(item) /\ Skips(item)
IsKept(item) == IsRecord(item) /\ ~Skips(item)

\* The items of the input that passed produce's validation.
Accepted ==
    IF mainError = "produce" THEN SubSeq(stdin, 1, Len(stdin) - 1) ELSE stdin

\* C11: records are put on the queue in the order the input yields them;
\* the batches, concatenated in dispatch order and followed by the batch
\* being collected, are the records handled so far with the skipped ones
\* removed, in the same order; when main returns they are the whole input
\* without the skipped records.
C11_OrderPreserved ==
    /\ SelectSeq(putLog, IsRecord) = Accepted
    /\ Concat(batches) \o batch = SelectSeq(Handled, IsKept)
    /\ skipped = SelectSeq(Handled, IsSkipped)
    /\ mainPc = "returned" => Concat(batches) = SelectSeq(stdin, IsKept)

\* main returned after two batches were dispatched and a record was skipped
\* between records that were sent.
C11_Witness ==
    /\ mainPc = "returned"
    /\ Len(batches) >= 2
    /\ Len(stdin) = MaxInput
    /\ IsKept(stdin[1])
    /\ IsSkipped(stdin[2])
    /\ IsKept(stdin[MaxInput])

(***************************************************************************)
(* The end of a Filling phase.                                              *)
(***************************************************************************)
\* C12: the timeout ends a Filling phase only after WAIT_TIMEOUT seconds
\* during which no item arrived; it does not cut a phase short while items
\* keep arriving.
C12_IdleTimeout ==
    lastEnd.cause = "timeout" => lastEnd.idle = WAIT_TIMEOUT

\* C13: once in a Filling phase the consumer stays in one until the caller
\* cancels it; it never ends by itself.
C13_NeverSelfTerminates ==
    [][consPc = "filling" => consPc' \in {"filling", "cancelling"}]_vars

(***************************************************************************)
(* Dispatch and the hash cache.                                             *)
(***************************************************************************)
\* C14: the step that hands a batch to the pool leaves the consumer in
\* Filling with an empty batch, the call of the new batch not finished and
\* the earlier batches as they were; it waits for no call.
C14_DispatchDoesNotWait ==
    [][Len(batches') > Len(batches) =>
           /\ consPc' = "filling"
           /\ batch' = <<>>
           /\ Len(batches') = Len(batches) + 1
           /\ batches'[Len(batches')].call \in {"pending", "running"}
           /\ batches'[Len(batches')].marks = 0
           /\ \A i \in 1 .. Len(batches) : batches'[i] = batches[i]]_vars

\* Two batches were in flight at the same time and the one dispatched later
\* finished first.
C14_Witness ==
    \E i, j \in 1 .. Len(batches) :
        /\ i < j
        /\ batches[i].call = "running"
        /\ batches[j].call = "finished"

\* C15: from the moment main has passed its first lines the mapping consume
\* looks records up in never changes, and no item is put on the queue
\* before then; with skip_existing it is the mapping fetch_existing
\* returned.
C15_CacheFixedBeforeFirstPut ==
    [][/\ mainPc # "start" => existing' = existing /\ cacheFile' = cacheFile
       /\ putLog' # putLog =>
              /\ mainPc = "produce"
              /\ skip_existing =>
                     existing = fetch_existing(cacheFile, remote).records]_vars

\* main returned after records were looked up in a non-empty mapping that
\* fetch_existing returned.
C15_Witness ==
    /\ mainPc = "returned"
    /\ skip_existing
    /\ existing # EmptyMap
    /\ batches # <<>>

(***************************************************************************)
(* fetch_existing.                                                          *)
(***************************************************************************)
\* C16: the cache file keeps the content it had when fetch_existing was
\* called until fetch_existing returns, in particular after a failed
\* request and after a crash while the temporary file is written; the
\* content it is replaced with is the complete refreshed mapping.
C16_NoPartialCache ==
    /\ fetchPc \in {"raised", "crashed"} => diskFile = diskFile0
    /\ diskFile # diskFile0 =>
           /\ fetchPc = "returned"
           /\ diskFile = fetchRecords
    /\ fetchPc = "returned" =>
           /\ fetchRecords = fetch_existing(diskFile0, Collection).records
           /\ diskFile = fetch_existing(diskFile0, Collection).file

\* The process died with some entries, not all, written to the temporary
\* file, and an earlier cache file in place.
C16_Witness ==
    /\ fetchPc = "crashed"
    /\ diskFile0 # NoFile
    /\ diskFile = diskFile0
    /\ diskTmp # NoFile
    /\ DOMAIN diskTmp # {}
    /\ DOMAIN diskTmp # DOMAIN fetchRecords
    /\ fetchRecords # diskFile0

\* A cache file with entries was there when fetch_existing was called.
Cached == diskFile0 # NoFile /\ DOMAIN diskFile0 # {}

HighestTimestamp == SetMax({diskFile0[id].ts : id \in DOMAIN diskFile0})

ModifiedSince == {r \in Collection : r.last_modified > HighestTimestamp}

\* C17: with a non-empty cache file fetch_existing sends one request, for
\* the records modified since the highest timestamp of the file, gets
\* those records, sets the entry of each to [last_modified, hash] and
\* keeps every other entry of the file.
C17_IncrementalFetch ==
    Cached =>
        /\ Len(requests) <= 1
        /\ \A i \in 1 .. Len(requests) :
               requests[i] = [page |-> 0, since |-> {HighestTimestamp}]
        /\ fetchPc = "merge" => new_records = ModifiedSince
        /\ fetchPc \in {"write", "dump", "crashed", "returned"} =>
               /\ DOMAIN fetchRecords =
                      DOMAIN diskFile0 \cup {r.id : r \in ModifiedSince}
               /\ \A r \in ModifiedSince :
                      fetchRecords[r.id] =
                          Entry(r.last_modified, hash_record(r))
               /\ \A id \in DOMAIN diskFile0 :
                      (\A r \in ModifiedSince : r.id # id) =>
                          fetchRecords[id] = diskFile0[id]

\* An incremental fetch returned having replaced one entry and kept
\* another, while the server holds a record that was not requested.
C17_Witness ==
    /\ Cached
    /\ fetchPc = "returned"
    /\ \E r \in ModifiedSince :
           /\ r.id \in DOMAIN diskFile0
           /\ fetchRecords[r.id] # diskFile0[r.id]
    /\ \E id \in DOMAIN diskFile0 : \A r \in ModifiedSince : r.id # id
    /\ Collection # ModifiedSince

\* C18: without a cache file the requests ask for page 1, 2, ... in turn,
\* each page once and none after the page whose Next-Page header is missing
\* or empty; each response is merged once, and when the last is merged the
\* mapping has the entry of every record of every page.
C18_Pagination ==
    diskFile0 = NoFile =>
        /\ Len(requests) <= Len(pages)
        /\ \A i \in 1 .. Len(requests) :
               requests[i] = [page |-> i, since |-> {}]
        /\ merged <= Len(requests)
        /\ fetchPc \in {"write", "dump", "crashed", "returned"} =>
               /\ Len(requests) = Len(pages)
               /\ merged = Len(pages)
               /\ DOMAIN fetchRecords = {r.id : r \in Collection}
               /\ \A r \in Collection :
                      fetchRecords[r.id] =
                          Entry(r.last_modified, hash_record(r))

\* fetch_existing returned after MaxPages pages, the last with an empty
\* Next-Page header.
C18_Witness ==
    /\ diskFile0 = NoFile
    /\ fetchPc = "returned"
    /\ Len(pages) = MaxPages
    /\ lastHeader = "empty"
    /\ Len(requests) = MaxPages
    /\ \A k \in 1 .. Len(pages) : pages[k] # {}

\* C19: when there is no cache file or the cache file holds a mapping
\* without entries, fetch_existing does not fail on loading it.
C19_EmptyCachePaginates ==
    (diskFile0 = NoFile \/ DOMAIN diskFile0 = {}) =>
        ~(fetchPc = "raised" /\ fetchError = "ValueError")

(***************************************************************************)
(* hash_record.                                                             *)
(***************************************************************************)
\* C20: every call of hash_record on a record returns the same digest, the
\* digest of the record without last_modified and schema; two records that
\* differ only in the value or presence of those two keys have the same
\* digest.
C20_HashIgnoresVolatile ==
    /\ \A i \in 1 .. Len(digests) : digests[i] = digests[1]
    /\ digests # <<>> /\ strippedDigest # {} => strippedDigest = {digests[1]}
    /\ digests # <<>> /\ otherDigest # {} =>
           (StripVolatile(hashInput) = StripVolatile(hashOther) =>
                otherDigest = {digests[1]})

\* hash_record was called MaxCalls times on a record holding both volatile
\* keys, on the stripped record, and on a record that differs from the
\* first in last_modified and lacks schema.
C20_Witness ==
    /\ Len(digests) = MaxCalls
    /\ strippedDigest # {}
    /\ otherDigest # {}
    /\ hashInput.last_modified # 0
    /\ hashInput.schema # 0
    /\ hashOther.id = hashInput.id
    /\ hashOther.title = hashInput.title
    /\ hashOther.last_modified \notin {0, hashInput.last_modified}
    /\ hashOther.schema = 0

(***************************************************************************)
(* A batch call that failed.                                                *)
(***************************************************************************)
\* The number of times item occurs in the sequence.
Count(item, seq) == Cardinality({k \in 1 .. Len(seq) : seq[k] = item})

\* C21: a batch whose call has ended, failed or not, keeps its records, its
\* ended call and the sub-operations the server applied in every later
\* step; a call that runs ends or keeps running; no record is in more
\* batches than the number of times it was queued.
C21_FailedBatchNotResent ==
    [][/\ \A i \in 1 .. Len(batches) :
              /\ i <= Len(batches')
              /\ batches'[i].records = batches[i].records
              /\ batches[i].call = "running" =>
                     batches'[i].call \in {"running", "finished"}
              /\ batches[i].call = "finished" =>
                     /\ batches'[i].call = "finished"
                     /\ batches'[i].failed = batches[i].failed
                     /\ batches'[i].applied = batches[i].applied
       /\ \A item \in Items :
              Count(item, Concat(batches') \o batch') <= Count(item, putLog')
      ]_vars

\* main returned after a batch of two records failed with one of its
\* sub-operations applied.
C21_Witness ==
    /\ mainPc = "returned"
    /\ \E i \in 1 .. Len(batches) :
           /\ batches[i].failed
           /\ batches[i].marks = Len(batches[i].records)
           /\ batches[i].applied >= 1
           /\ batches[i].applied < Len(batches[i].records)

(***************************************************************************)
(* The worker pool.                                                         *)
(***************************************************************************)
\* C29: at most NB_THREADS calls of publish_records run at the same time;
\* a call leaves the pool's work queue only to run, and only while fewer
\* than NB_THREADS calls run; a call that runs ends, a call that ended
\* never runs again; when main returns every batch dispatched has had its
\* call and its callback.
PoolBound ==
    /\ Cardinality(Running(batches)) <= NB_THREADS
    /\ mainPc = "returned" =>
           \A i \in 1 .. Len(batches) :
               /\ batches[i].call = "finished"
               /\ batches[i].marks = Len(batches[i].records)

CalledOnce ==
    \A i \in 1 .. Len(batches) :
        /\ i \in DOMAIN batches'
        /\ batches'[i].records = batches[i].records
        /\ batches[i].call = "pending" /\ batches'[i].call # "pending" =>
               /\ batches'[i].call = "running"
               /\ Cardinality(Running(batches)) < NB_THREADS
        /\ batches[i].call = "running" =>
               batches'[i].call \in {"running", "finished"}
        /\ batches[i].call = "finished" => batches'[i].call = "finished"

C29_PoolBounded == []PoolBound /\ [][CalledOnce]_vars

\* NB_THREADS calls run and one more batch waits in the pool.
C29_Witness ==
    /\ Cardinality(Running(batches)) = NB_THREADS
    /\ \E i \in 1 .. Len(batches) : batches[i].call = "pending"

(***************************************************************************)
(* The change check and the record.                                         *)
(***************************************************************************)
\* The records in the batches and in the batch being collected.
Sent == Concat(batches) \o batch

\* C30: every record in a batch is a record as it was put on the queue,
\* with the last_modified and schema it had; hash_record leaves its
\* argument as it was, and hash_record_mutate leaves it without the two
\* keys.
C30_RecordSentAsQueued ==
    \A k \in 1 .. Len(Sent) :
        /\ \E j \in 1 .. Len(putLog) : putLog[j] = Sent[k]
        /\ hash_record_argument(Sent[k].data) = Sent[k].data
        /\ hash_record_mutate(Sent[k].data).record.last_modified = 0
        /\ hash_record_mutate(Sent[k].data).record.schema = 0

\* A record with last_modified and schema whose id is in the hash cache,
\* so that consume hashed it, was sent in a batch call that ended.
C30_Witness ==
    \E i \in 1 .. Len(batches) : \E k \in 1 .. Len(batches[i].records) :
        /\ batches[i].call = "finished"
        /\ batches[i].records[k].data.id \in DOMAIN existing
        /\ batches[i].records[k].data.last_modified # 0
        /\ batches[i].records[k].data.schema # 0

(***************************************************************************)
(* fetch_json.                                                              *)
(***************************************************************************)
\* Every answer so far was of one of the given kinds.
AllAnswers(kinds) == \A k \in 1 .. Len(answers) : answers[k] \in kinds

\* Every answer but the last was of one of the given kinds and the last
\* was a parsed body.
OkAfter(kinds) ==
    /\ answers # <<>>
    /\ answers[Len(answers)] = "ok"
    /\ \A k \in 1 .. Len(answers) - 1 : answers[k] \in kinds

\* C22: when every answer is a 404, fetch_json without retry_on_notfound
\* raises JSONFileNotFound after one attempt; with retry_on_notfound it
\* goes on up to 4 attempts and then raises ClientError; a parsed body
\* after 404s is returned.
C22_NotFound ==
    /\ (answers # <<>> /\ AllAnswers({"notfound"}) /\ ~retry_on_notfound) =>
           /\ Len(answers) = 1
           /\ fetchJsonPc = "raised"
           /\ fetchJsonError = "JSONFileNotFound"
    /\ (AllAnswers({"notfound"}) /\ retry_on_notfound) =>
           /\ Len(answers) <= 4
           /\ Len(answers) < 4 => fetchJsonPc = "trying"
           /\ Len(answers) = 4 =>
                  fetchJsonPc = "raised" /\ fetchJsonError = "ClientError"
    /\ (OkAfter({"notfound"}) /\ retry_on_notfound) =>
           fetchJsonPc = "returned" /\ received = "body"

\* fetch_json with retry_on_notfound gave up after four answers of 404.
C22_Witness ==
    /\ retry_on_notfound
    /\ Len(answers) = 4
    /\ AllAnswers({"notfound"})
    /\ fetchJsonPc = "raised"
    /\ fetchJsonError = "ClientError"

\* C23: while every answer is an error status other than 404 or a
\* connection error, fetch_json goes on up to 4 attempts and then raises
\* ClientError; a parsed body after such failures is returned; there is
\* never a fifth attempt.
C23_RetryBudget ==
    /\ Len(answers) <= 4
    /\ AllAnswers({"status", "connection"}) =>
           /\ Len(answers) < 4 => fetchJsonPc = "trying"
           /\ Len(answers) = 4 =>
                  fetchJsonPc = "raised" /\ fetchJsonError = "ClientError"
    /\ OkAfter({"status", "connection"}) =>
           fetchJsonPc = "returned" /\ received = "body"

\* fetch_json gave up after four failures, of both kinds.
C23_Witness ==
    /\ Len(answers) = 4
    /\ AllAnswers({"status", "connection"})
    /\ answers[1] = "status"
    /\ answers[4] = "connection"
    /\ fetchJsonPc = "raised"
    /\ fetchJsonError = "ClientError"

\* The calls i < j of the resolver fn that ask for the same key.
SameKey(i, j) ==
    /\ i < j
    /\ calls[i].fn = calls[j].fn
    /\ calls[i].product = calls[j].product
    /\ calls[i].version = calls[j].version
    /\ calls[i].platform = calls[j].platform
    /\ calls[i].url.build = calls[j].url.build

\* C24: scan_candidates sends listing requests only the first time it runs
\* for a product, whether called directly or from fetch_release_metadata:
\* a call that finds an entry for the product, even an empty one, sends no
\* listing request, and no step changes an entry the cache holds.
C24_ScanOncePerProduct ==
    [][/\ \A p \in DOMAIN candidates_build_folder :
            /\ p \in DOMAIN candidates_build_folder'
            /\ candidates_build_folder'[p] = candidates_build_folder[p]
       /\ \A j \in DOMAIN calls' :
            /\ calls'[j].hadEntry => calls'[j].listings = 0
            /\ \A i \in 1 .. j - 1 :
                /\ calls'[i].product = calls'[j].product
                /\ calls'[j].product \in Products
                => calls'[j].listings = 0]_vars

\* A scan that found no version folder, then two resolver calls for the
\* product: the entry is empty and neither resolver call listed anything.
C24_Witness ==
    /\ Len(calls) = 3
    /\ calls[1].fn = "scan_candidates"
    /\ calls[1].listings = 1
    /\ DOMAIN candidates_build_folder[calls[1].product] = {}
    /\ \A j \in {2, 3} :
        /\ calls[j].fn = "fetch_release_metadata"
        /\ calls[j].product = calls[1].product
        /\ calls[j].listings = 0

\* C25: after fetch_release_metadata raised for a key because the candidate
\* folder lists no matching sidecar, a later call for the key sends no
\* request and returns None.
C25_MissingSidecarRemembered ==
    \A j \in DOMAIN calls : \A i \in 1 .. j - 1 :
        /\ calls[i].fn = "fetch_release_metadata"
        /\ SameKey(i, j)
        /\ calls[i].error = "missing sidecar"
        => /\ calls[j].requests = 0
           /\ calls[j].error = "none"
           /\ calls[j].result = None

\* The call raised for the missing sidecar and was repeated.
C25_Witness ==
    \E j \in DOMAIN calls : \E i \in 1 .. j - 1 :
        /\ calls[i].fn = "fetch_release_metadata"
        /\ SameKey(i, j)
        /\ calls[i].error = "missing sidecar"
        /\ calls[i].requests > 0
        /\ calls[j].result = None

\* C26: a resolver call that returned, a fragment or None, is answered from
\* the cache afterwards: fetch_nightly_metadata for any entry of the same
\* build, whatever its locale, and fetch_release_metadata for the same
\* (product, version, platform), return the same result without a request.
C26_ResolversMemoize ==
    \A j \in DOMAIN calls : \A i \in 1 .. j - 1 :
        /\ calls[i].fn \in {"fetch_nightly_metadata", "fetch_release_metadata"}
        /\ SameKey(i, j)
        /\ calls[i].error = "none"
        => /\ calls[j].requests = 0
           /\ calls[j].error = "none"
           /\ calls[j].result = calls[i].result

\* A nightly resolved for one locale and asked again for another, then a
\* third time.
C26_Witness ==
    /\ Len(calls) = 3
    /\ \A i \in 1 .. 3 : calls[i].fn = "fetch_nightly_metadata"
    /\ calls[1].url.locale # calls[2].url.locale
    /\ calls[1].requests > 0
    /\ calls[1].result \in Fragments
    /\ calls[2].result = calls[1].result
    /\ calls[3].result = calls[1].result


\* The entries csv_to_records has handled whose timestamp passes, that
\* parse and resolve, and that are complete or kept though incomplete.
Resolves(k) ==
    /\ min_last_modified # NoMinimum => inventory[k].stamp >= min_last_modified
    /\ inventory[k].outcome \in {"None", "fragment"}
    /\ skip_incomplete => inventory[k].outcome = "fragment"

Indices(seq) == {seq[i] : i \in DOMAIN seq}

\* C27: an entry whose handling raises, by a parse error or a resolver
\* failure, is skipped and the sequence goes on with the entry after it:
\* among the entries handled so far no failed one has a record emitted and
\* every one that resolves has, in the order of the input.
C27_ContinuesOnError ==
    /\ \A i \in DOMAIN emitted : \A j \in DOMAIN emitted :
        i < j => emitted[i] < emitted[j]
    /\ \A k \in 1 .. position :
        /\ inventory[k].outcome \in {"parse error", "resolver error"}
           => k \notin Indices(emitted)
        /\ Resolves(k) => k \in Indices(emitted)

\* An entry failed to parse, a later one failed in its resolver, and the
\* last one resolved and was emitted.
C27_Witness ==
    /\ Len(inventory) = MaxEntries
    /\ position = MaxEntries
    /\ inventory[1].outcome = "parse error"
    /\ inventory[MaxEntries - 1].outcome = "resolver error"
    /\ ~Older(inventory[1].stamp, min_last_modified)
    /\ ~Older(inventory[MaxEntries - 1].stamp, min_last_modified)
    /\ emitted = <<MaxEntries>>

\* C28: with min_last_modified set, an entry strictly older than it has no
\* record emitted and is dropped before its resolver is called, so before
\* the completeness filter; an entry at or after it goes on to the
\* resolver if it parses and has its record emitted if it resolves.
C28_MinLastModified ==
    min_last_modified # NoMinimum =>
        \A k \in 1 .. position :
            IF inventory[k].stamp < min_last_modified
            THEN /\ k \notin Indices(emitted)
                 /\ k \notin Indices(resolved)
            ELSE /\ inventory[k].outcome # "parse error"
                    => k \in Indices(resolved)
                 /\ Resolves(k) => k \in Indices(emitted)

\* The minimum is set and incomplete records are kept: an older incomplete
\* entry was dropped, and the entries at the minimum and after it were
\* emitted.
C28_Witness ==
    /\ min_last_modified = Threshold
    /\ ~skip_incomplete
    /\ Len(inventory) = MaxEntries
    /\ position = MaxEntries
    /\ inventory[1].stamp < Threshold
    /\ inventory[1].outcome = "None"
    /\ inventory[2].stamp = Threshold
    /\ inventory[MaxEntries].stamp > Threshold
    /\ emitted = <<2, MaxEntries>>
    /\ 1 \notin Indices(resolved)


\* C31: when every item of the input carries 'data' or 'permission', so
\* that produce puts them all and the sentinel and main waits in
\* queue.join(), every queued item is eventually marked done and main
\* eventually returns.
C31_MainReturns == (mainPc = "join") ~> (mainPc = "returned")


\* C32: once produce has put the whole input and the sentinel, every record
\* it put that is not skipped as unchanged, with an id in its data or
\* without, gets into exactly one dispatched batch for each time it was
\* put, and main returns.
C32_AcceptedRecordDispatched ==
    \A item \in {i \in Items : HasKeyData(i)} :
        (mainPc = "join" /\ Count(item, putLog) > 0 /\ ~Skips(item))
        ~> (/\ mainPc = "returned"
            /\ Count(item, Concat(batches)) = Count(item, putLog))


\* C33: when produce aborts on an invalid item, main ends with that
\* failure straight from produce: it has not waited in queue.join() and
\* does not get there, and the consumer is not cancelled, then or later;
\* no item is put after that.
C33_AbortSkipsJoin ==
    [][/\ mainError' = "produce" =>
            /\ mainPc' = "raised"
            /\ mainPc \in {"produce", "raised"}
            /\ consPc' \notin {"cancelling", "cancelled"}
       /\ mainError = "produce" => UNCHANGED <<mainPc, mainError, putLog>>
      ]_vars

\* produce aborted while a record it had queued was still in the queue,
\* another was in the batch being collected, and a batch call was running.
C33_Witness ==
    /\ mainError = "produce"
    /\ \E k \in 1 .. Len(queue) : IsRecord(queue[k])
    /\ \/ batch # <<>>
       \/ \E i \in 1 .. Len(batches) : batches[i].call = "running"
    /\ unfinished > 0
    /\ consPc = "filling"


\* The highest timestamp of a mapping id -> [timestamp, hash] with entries.
Highest_ts(records) == SetMax({records[id].ts : id \in DOMAIN records})

\* C34: fetch_existing removes no id: the mapping it works on once the
\* cache file is loaded, the mapping it returns and the cache file on disk
\* hold every id the cache file held before the call, also the ids of
\* records the remote collection no longer has; the highest timestamp of
\* the file and of the returned mapping is at least the one the file had.
C34_CacheOnlyGrows ==
    diskFile0 # NoFile =>
        /\ diskFile # NoFile
        /\ DOMAIN diskFile0 \subseteq DOMAIN diskFile
        /\ fetchPc # "load" => DOMAIN diskFile0 \subseteq DOMAIN fetchRecords
        /\ Cached =>
            /\ Highest_ts(diskFile) >= HighestTimestamp
            /\ fetchPc # "load" => Highest_ts(fetchRecords) >= HighestTimestamp

\* A refresh returned: the cache file held an id the remote collection no
\* longer has and an id whose remote record is not newer, and a newer
\* record was merged and persisted.
C34_Witness ==
    /\ Cached
    /\ fetchPc = "returned"
    /\ \E id \in DOMAIN diskFile0 : \A r \in Collection : r.id # id
    /\ \E id \in DOMAIN diskFile0 : \E r \in Collection :
        r.id = id /\ r.last_modified <= diskFile0[id].ts
    /\ diskFile = fetchRecords
    /\ Highest_ts(diskFile) > HighestTimestamp


====
